---- MODULE Spec2Model ----
(***************************************************************************)
(* A model of the morph package: the annotation-chain compiler             *)
(* (buildStructCache / buildTagsCache / buildTagCache), the shape          *)
(* descriptor cache (getStructCache), the traversal engine (morphStruct /  *)
(* morphField / dive / morphCollection / morphMap / morphMapKey), the      *)
(* built-in transformers, and the public surface New / Struct / Register / *)
(* WithTag.                                                                *)
(*                                                                         *)
(* Go strings are sequences of one-character strings.  Go values are       *)
(* records tagged with their reflect.Kind in field k; the caller's data is *)
(* a tree (no two pointers share a pointee, no cycles).  A float is held   *)
(* as an integer number of thousandths.  A panic of the Go runtime is an   *)
(* error value of its own (Panic...), distinct   from every returned      *)
(* error: it ends the call without a return value.                         *)
(***************************************************************************)
EXTENDS Integers, Sequences, FiniteSets, TLC

\* ------------------------------------------------------------------ bounds
\* Struct, Register and WithTag calls in a behaviour.
MaxCalls == 3

\* Tokens in an annotation given to the chain compiler on its own.
MaxTokens == 4

\* ------------------------------------------------------------ Go strings
\* strings.TrimSpace / unicode.IsSpace: the alphabet of the model holds the
\* space only.
IsSpace(c) == c = " "

RECURSIVE TrimLeft(_)
TrimLeft(s) ==
  IF s # <<>> /\ IsSpace(Head(s)) THEN TrimLeft(Tail(s)) ELSE s

RECURSIVE TrimRight(_)
TrimRight(s) ==
  IF s # <<>> /\ IsSpace(s[Len(s)]) THEN TrimRight(SubSeq(s, 1, Len(s) - 1)) ELSE s

TrimSpace(s) == TrimRight(TrimLeft(s))

UpperLetters == <<"A", "B", "C", "D", "E", "F", "K", "L", "Q", "S", "T", "V", "W", "X", "Y">>
LowerLetters == <<"a", "b", "c", "d", "e", "f", "k", "l", "q", "s", "t", "v", "w", "x", "y">>

LetterIndex(letters, c) ==
  IF \E i \in 1..Len(letters) : letters[i] = c
  THEN CHOOSE i \in 1..Len(letters) : letters[i] = c
  ELSE 0

\* unicode.ToLower / unicode.ToUpper on one character.
LowerOf(c) ==
  IF LetterIndex(UpperLetters, c) > 0 THEN LowerLetters[LetterIndex(UpperLetters, c)] ELSE c

UpperOf(c) ==
  IF LetterIndex(LowerLetters, c) > 0 THEN UpperLetters[LetterIndex(LowerLetters, c)] ELSE c

ToLower(s) == [i \in 1..Len(s) |-> LowerOf(s[i])]

ToUpper(s) == [i \in 1..Len(s) |-> UpperOf(s[i])]

\* strings.IndexRune: the zero-based index of the first c in s, -1 if none.
IndexRune(s, c) ==
  IF \E i \in 1..Len(s) : s[i] = c
  THEN (CHOOSE i \in 1..Len(s) : s[i] = c /\ \A j \in 1..(i - 1) : s[j] # c) - 1
  ELSE -1

\* The fault of splitting as strings.Split does: the runs between
\* separators, empty ones kept.
RECURSIVE FieldsFuncKeepEmpty(_, _)
FieldsFuncKeepEmpty(s, sep) ==
  LET i == IndexRune(s, sep)
  IN IF i < 0 THEN <<s>>
     ELSE <<SubSeq(s, 1, i)>> \o FieldsFuncKeepEmpty(SubSeq(s, i + 2, Len(s)), sep)

\* strings.FieldsFunc(s, r == sep): the maximal runs of non-separator
\* characters, in order; empty runs are dropped.
RECURSIVE FieldsFunc(_, _)
FieldsFunc(s, sep) ==
  IF s = <<>> THEN <<>>
  ELSE IF Head(s) = sep THEN FieldsFunc(Tail(s), sep)
  ELSE LET i == IndexRune(s, sep)
       IN IF i < 0 THEN <<s>>
          ELSE <<SubSeq(s, 1, i)>> \o FieldsFunc(SubSeq(s, i + 2, Len(s)), sep)

Digits == <<"0", "1", "2", "3", "4", "5", "6", "7", "8", "9">>

IsDigit(c) == \E i \in 1..10 : Digits[i] = c

DigitValue(c) == (CHOOSE i \in 1..10 : Digits[i] = c) - 1

RECURSIVE DigitsValue(_)
DigitsValue(s) ==
  IF s = <<>> THEN 0 ELSE 10 * DigitsValue(SubSeq(s, 1, Len(s) - 1)) + DigitValue(s[Len(s)])

\* strconv.Atoi: an optional sign and at least one decimal digit.
Atoi(s) ==
  LET signed == s # <<>> /\ Head(s) \in {"+", "-"}
      body == IF signed THEN Tail(s) ELSE s
  IN IF body = <<>> \/ \E i \in 1..Len(body) : ~IsDigit(body[i])
     THEN [ok |-> FALSE, n |-> 0]
     ELSE [ok |-> TRUE,
           n |-> IF signed /\ Head(s) = "-" THEN 0 - DigitsValue(body) ELSE DigitsValue(body)]

\* fmt's %d of a field index.
RECURSIVE Itoa(_)
Itoa(n) ==
  IF n < 10 THEN <<Digits[n + 1]>> ELSE Itoa(n \div 10) \o <<Digits[(n % 10) + 1]>>

\* ------------------------------------------------- tags and constants
TagTrim == <<"t", "r", "i", "m">>
TagLower == <<"l", "o", "w", "e", "r">>
TagUpper == <<"u", "p", "p", "e", "r">>
TagTruncate == <<"t", "r", "u", "n", "c", "a", "t", "e">>
TagCeil == <<"c", "e", "i", "l">>
TagFloor == <<"f", "l", "o", "o", "r">>
TagRound == <<"r", "o", "u", "n", "d">>
TagPrecision == <<"p", "r", "e", "c", "i", "s", "i", "o", "n">>

TagDive == <<"d", "i", "v", "e">>
TagKeys == <<"k", "e", "y", "s">>
TagExit == <<"e", "x", "i", "t">>
TagIgnore == <<"-">>

DefaultTag == <<"m", "o", "r", "p", "h">>
TagSeparator == ","
ParamsSign == "="

navigationalTags == {TagDive, TagKeys, TagExit, TagIgnore}

\* ---------------------------------------------------------------- errors
\* An error value: the message format it was built from and the arguments
\* given to newErrorf (a directive name, a kind name, a raw parameter).
newErrorf(messageFmt, tag, kind, params) ==
  [fmt |-> messageFmt, tag |-> tag, kind |-> kind, params |-> params]

newError(message) == newErrorf(message, <<>>, "", <<>>)

\* The nil error.
NoErr == newErrorf("nil", <<>>, "", <<>>)

\* Run-time panics: a nil *string dereferenced, a reflect setter called on a
\* value of another kind, Value.Field with an index the record does not have,
\* Value.Set given the zero Value.
PanicNilDeref == newErrorf("panic: nil pointer dereference", <<>>, "", <<>>)
PanicReflectKind(kind) == newErrorf("panic: reflect: call of SetString", <<>>, kind, <<>>)
PanicFieldIndex == newErrorf("panic: reflect: Field index out of range", <<>>, "", <<>>)
PanicZeroValue == newErrorf("panic: reflect: call of Set on zero Value", <<>>, "", <<>>)
PanicUnaddressable == newErrorf("panic: reflect: Set using unaddressable value", <<>>, "", <<>>)
PanicInvalidTagName == newErrorf("panic: ErrInvalidTagName", <<>>, "", <<>>)

IsPanic(err) ==
  err.fmt \in {PanicNilDeref.fmt, PanicReflectKind("").fmt, PanicFieldIndex.fmt,
               PanicZeroValue.fmt, PanicUnaddressable.fmt, PanicInvalidTagName.fmt}

\* ---------------------------------------------------------------- values
\* reflect.Value contents, by kind.  A nil pointer carries in elem the zero
\* value of its element type (what reflect.New(type.Elem()).Elem() yields).
Str(s) == [k |-> "string", s |-> s]
Flt(n) == [k |-> "float64", f |-> n]
IntV(n) == [k |-> "int", n |-> n]
Ptr(v) == [k |-> "ptr", nil |-> FALSE, elem |-> v]
NilPtr(zero) == [k |-> "ptr", nil |-> TRUE, elem |-> zero]
Invalid == [k |-> "invalid"]
Iface(v) == [k |-> "interface", nil |-> FALSE, elem |-> v]
NilIface == [k |-> "interface", nil |-> TRUE, elem |-> Invalid]
Slice(items) == [k |-> "slice", items |-> items]
Array(items) == [k |-> "array", items |-> items]
MapV(m) == [k |-> "map", m |-> m]
StructV(shape, fields) == [k |-> "struct", shape |-> shape, fields |-> fields]

\* The entries of a Go map are a function from key values to element values.
EmptyMap == <<>>

\* The fault of leaving the entry in the map while its key is walked.
MapDeleteKeepsEntry(m, key) == m

MapDelete(m, key) == [x \in (DOMAIN m) \ {key} |-> m[x]]

\* Value.SetMapIndex(key, elem) with a valid elem: insert or overwrite.
MapSet(m, key, elem) == [x \in (DOMAIN m) \cup {key} |-> IF x = key THEN elem ELSE m[x]]

\* ----------------------------------------------------------- transformers
\* FieldTransformer objects.  NilTransformer is the nil interface value of a
\* navigation-only instruction.
NilTransformer == "nil"
BuiltinTransformers ==
  {"trimTransformer", "toLowerTransformer", "toUpperTransformer", "truncateTransformer",
   "ceilTransformer", "floorTransformer", "roundTransformer", "precisionTransformer"}

\* funcTransformer objects differ by their Func: one sets the string "baba",
\* one appends "x" to the string.
CustomTransformers == {"funcTransformer:set", "funcTransformer:append", "emptyTransformer"}

\* The transformers that embed IntParameterTransformer: each owns a Values map.
IntParameterTransformers == {"truncateTransformer", "precisionTransformer"}

\* The nil *string.
NilKey == <<"<nil>">>

Baba == <<"b", "a", "b", "a">>

\* The fault of a Cache that parses the parameter and stores nothing.
CacheStoresNothing(tr, params, key, values) ==
  IF tr \in IntParameterTransformers /\ ~Atoi(params).ok
  THEN [err |-> newErrorf("ErrInvalidParameters", TagPrecision, "", params), values |-> values]
  ELSE [err |-> NoErr, values |-> values]

\* IntParameterTransformer.Cache / ParameterlessTransformer.Cache:
\* the error and the Values maps after the call.
Cache(tr, params, key, values) ==
  IF tr \in IntParameterTransformers
  THEN LET a == Atoi(params)
       IN IF ~a.ok
          THEN [err |-> newErrorf("ErrInvalidParameters", TagPrecision, "", params),
                values |-> values]
          ELSE [err |-> NoErr,
                values |-> [values EXCEPT ![tr] = (key :> a.n) @@ values[tr]]]
  ELSE [err |-> NoErr, values |-> values]

IsFloat(v) == v.k \in {"float64", "float32"}

\* math.Floor, math.Ceil, math.Round (half away from zero) and the
\* conversion int(x) (towards zero) on thousandths.
Floor(n) == (n \div 1000) * 1000
Ceil(n) == 0 - Floor(0 - n)
Round(n) == IF n >= 0 THEN Floor(n + 500) ELSE 0 - Floor((0 - n) + 500)
TruncDiv(a, b) == IF a >= 0 THEN a \div b ELSE 0 - ((0 - a) \div b)

RECURSIVE Pow10(_)
Pow10(p) == IF p <= 0 THEN 1 ELSE 10 * Pow10(p - 1)

\* float64(int(x * 10^p)) / 10^p on thousandths (exact decimal arithmetic);
\* the loop that raises 10 to p makes no turn for p <= 0.
Precision(n, p) ==
  LET q == IF p > 0 THEN p ELSE 0
  IN IF q >= 3 THEN n ELSE TruncDiv(n, Pow10(3 - q)) * Pow10(3 - q)

UnexpectedValue(tag, v) == newErrorf("ErrUnexpectedValue", tag, v.k, <<>>)

trimTransform(v) ==
  IF v.k # "string" THEN [v |-> v, err |-> UnexpectedValue(TagTrim, v)]
  ELSE [v |-> Str(TrimSpace(v.s)), err |-> NoErr]

toLowerTransform(v) ==
  IF v.k # "string" THEN [v |-> v, err |-> UnexpectedValue(TagLower, v)]
  ELSE [v |-> Str(ToLower(v.s)), err |-> NoErr]

toUpperTransform(v) ==
  IF v.k # "string" THEN [v |-> v, err |-> UnexpectedValue(TagUpper, v)]
  ELSE [v |-> Str(ToUpper(v.s)), err |-> NoErr]

\* The fault of reading the parameter before the kind of the value is
\* looked at.
truncateTransformParameterFirst(v, paramsKey, values) ==
  IF paramsKey = NilKey THEN [v |-> v, err |-> PanicNilDeref]
  ELSE IF paramsKey \notin DOMAIN values["truncateTransformer"]
       THEN [v |-> v, err |-> newErrorf("ErrMissingParametersFmt", TagTruncate, "", <<>>)]
  ELSE IF v.k # "string" THEN [v |-> v, err |-> UnexpectedValue(TagTruncate, v)]
  ELSE LET limit == values["truncateTransformer"][paramsKey]
       IN IF limit < 0 THEN [v |-> v, err |-> newErrorf("ErrInvalidParameters", <<>>, "", <<>>)]
          ELSE IF Len(v.s) > limit THEN [v |-> Str(SubSeq(v.s, 1, limit)), err |-> NoErr]
          ELSE [v |-> v, err |-> NoErr]

truncateTransform(v, paramsKey, values) ==
  IF v.k # "string" THEN [v |-> v, err |-> UnexpectedValue(TagTruncate, v)]
  ELSE IF paramsKey = NilKey THEN [v |-> v, err |-> PanicNilDeref]
  ELSE IF paramsKey \notin DOMAIN values["truncateTransformer"]
       THEN [v |-> v, err |-> newErrorf("ErrMissingParametersFmt", TagTruncate, "", <<>>)]
  ELSE LET limit == values["truncateTransformer"][paramsKey]
       IN IF limit < 0 THEN [v |-> v, err |-> newErrorf("ErrInvalidParameters", <<>>, "", <<>>)]
          ELSE IF Len(v.s) > limit THEN [v |-> Str(SubSeq(v.s, 1, limit)), err |-> NoErr]
          ELSE [v |-> v, err |-> NoErr]

ceilTransform(v) ==
  IF ~IsFloat(v) THEN [v |-> v, err |-> UnexpectedValue(TagCeil, v)]
  ELSE [v |-> [v EXCEPT !.f = Ceil(v.f)], err |-> NoErr]

floorTransform(v) ==
  IF ~IsFloat(v) THEN [v |-> v, err |-> UnexpectedValue(TagFloor, v)]
  ELSE [v |-> [v EXCEPT !.f = Floor(v.f)], err |-> NoErr]

roundTransform(v) ==
  IF ~IsFloat(v) THEN [v |-> v, err |-> UnexpectedValue(TagRound, v)]
  ELSE [v |-> [v EXCEPT !.f = Round(v.f)], err |-> NoErr]

precisionTransform(v, key, values) ==
  IF ~IsFloat(v) THEN [v |-> v, err |-> UnexpectedValue(TagPrecision, v)]
  ELSE IF key = NilKey THEN [v |-> v, err |-> PanicNilDeref]
  ELSE IF key \notin DOMAIN values["precisionTransformer"]
       THEN [v |-> v, err |-> newErrorf("ErrMissingParametersFmt", TagPrecision, "", <<>>)]
  ELSE [v |-> [v EXCEPT !.f = Precision(v.f, values["precisionTransformer"][key])],
        err |-> NoErr]

\* funcTransformer.Transform with Func = s.SetString("baba") or
\* s.SetString(s.String() + "x"); emptyTransformer.Transform.
funcTransform(tr, v) ==
  IF tr = "emptyTransformer" THEN [v |-> v, err |-> NoErr]
  ELSE IF v.k # "string" THEN [v |-> v, err |-> PanicReflectKind(v.k)]
  ELSE IF tr = "funcTransformer:set" THEN [v |-> Str(Baba), err |-> NoErr]
  ELSE [v |-> Str(v.s \o <<"x">>), err |-> NoErr]

\* FieldTransformer.Transform, dispatched on the transformer object: the
\* working copy after the call and the error.
Transform(tr, v, paramsKey, values) ==
  CASE tr = "trimTransformer" -> trimTransform(v)
    [] tr = "toLowerTransformer" -> toLowerTransform(v)
    [] tr = "toUpperTransformer" -> toUpperTransform(v)
    [] tr = "truncateTransformer" -> truncateTransform(v, paramsKey, values)
    [] tr = "ceilTransformer" -> ceilTransform(v)
    [] tr = "floorTransformer" -> floorTransform(v)
    [] tr = "roundTransformer" -> roundTransform(v)
    [] tr = "precisionTransformer" -> precisionTransform(v, paramsKey, values)
    [] OTHER -> funcTransform(tr, v)

\* ----------------------------------------------------------------- state
VARIABLES
  tagName,       \* cache.tagName: the annotation key read from struct tags
  transformers,  \* cache.transformers: directive name -> FieldTransformer
  structsCache,  \* cache.structsCache: shape key -> *structCache
  Values,        \* IntParameterTransformer.Values of truncate and precision
  lastOp,        \* the operation of the last step
  lastArg,       \* Struct: the argument as passed; Register: the transformer
  lastOut,       \* Struct: the caller's data after the call
  lastErr,       \* the error returned (or the panic raised) by the last step
  lastTrace,     \* Struct: the field visits, builds, Cache and Transform calls
  lastFailed,    \* Struct: the shape whose compilation failed, or ""
  lastName,      \* Register, WithTag: the name as passed
  lastFail,      \* the last Struct call that failed in compilation
  calls,         \* calls made so far
  mutex,         \* the sync.RWMutex New creates: its writer and its readers
  goroutines,    \* concurrent callers: where each is in its call, its locals
  writes         \* how often each key of each shared table was written

vars ==
  <<tagName, transformers, structsCache, Values, lastOp, lastArg, lastOut, lastErr,
    lastTrace, lastFailed, lastName, lastFail, calls, mutex, goroutines, writes>>

\* The variables only concurrent callers change.
concVars == <<mutex, goroutines, writes>>

\* ----------------------------------------------------------------- shapes
Join(a, b) == a \o <<TagSeparator>> \o b
Param(tag, params) == tag \o <<ParamsSign>> \o params

Field(name, exported, tags) == [name |-> name, exported |-> exported, tags |-> tags]

\* A struct tag holding one annotation under the default key.
Morph(raw) == DefaultTag :> raw

NoTag == <<>>

\* The fault of reading the annotation under the default key when there is
\* none under the key asked for.
TagGetWithDefault(field, key) ==
  IF key \in DOMAIN field.tags THEN field.tags[key]
  ELSE IF DefaultTag \in DOMAIN field.tags THEN field.tags[DefaultTag]
  ELSE <<>>

\* reflect.StructTag.Get: the annotation under key, "" when there is none.
TagGet(field, key) == IF key \in DOMAIN field.tags THEN field.tags[key] ELSE <<>>

PkgPath == <<"g", "/", "m">>
PkgName == <<"m">>

\* A record type declared in package m: its reflect.Type PkgPath(), Name() and
\* String(), and its fields in declaration order.
Shape(name, fields) ==
  [pkgPath |-> PkgPath, name |-> name, str |-> PkgName \o <<".">> \o name, fields |-> fields]

\* A record type named name declared in a package named m at another import
\* path.
ShapeIn(pkgPath, name, fields) ==
  [pkgPath |-> pkgPath, name |-> name, str |-> PkgName \o <<".">> \o name, fields |-> fields]

\* An unnamed record type: PkgPath() and Name() are empty, String() is the
\* text of the type.
AnonShape(str, fields) == [pkgPath |-> <<>>, name |-> <<>>, str |-> str, fields |-> fields]

Shapes ==
  [Plain |-> Shape(<<"P", "l">>,
       <<Field("A", TRUE, NoTag),
         Field("B", TRUE, Morph(<<>>)),
         Field("C", TRUE, Morph(<<",">>)),
         Field("D", TRUE, Morph(<<",", ",">>)),
         Field("Inner", TRUE, NoTag),
         Field("L", TRUE, NoTag)>>),
   PlainInner |-> Shape(<<"P", "I">>,
       <<Field("X", TRUE, NoTag),
         Field("Y", TRUE, Morph(<<>>))>>),
   Trio |-> Shape(<<"T", "r">>,
       <<Field("F1", TRUE, Morph(Join(TagTrim, TagLower))),
         Field("F2", TRUE, Morph(Join(TagDive, TagTrim))),
         Field("F3", TRUE, Morph(TagUpper))>>),
   Seq |-> Shape(<<"S", "q">>,
       <<Field("L", TRUE, Morph(Join(TagDive, Join(TagTrim, TagLower)))),
         Field("Arr", TRUE, Morph(Join(TagDive, TagUpper)))>>),
   Doc |-> Shape(<<"D", "o">>,
       <<Field("SomeField", TRUE,
               Morph(Join(TagTrim, Join(TagLower, Param(TagTruncate, <<"5">>)))))>>),
   Nums |-> Shape(<<"N", "u">>,
       <<Field("Numbers", TRUE, Morph(Join(TagDive, Param(TagPrecision, <<"2">>))))>>),
   Head |-> Shape(<<"H", "d">>,
       <<Field("S", TRUE, Morph(Join(Param(TagTruncate, <<"5">>), TagTrim))),
         Field("N", TRUE, Morph(Param(TagPrecision, <<"2">>)))>>),
   KeyT |-> Shape(<<"K", "T">>,
       <<Field("M", TRUE,
               Morph(Join(TagDive, Join(TagKeys, Param(TagTruncate, <<"1">>)))))>>),
   Maps |-> Shape(<<"M", "a">>,
       <<Field("M", TRUE,
               Morph(Join(TagDive, Join(TagKeys, Join(TagTrim, Join(TagLower,
                     Join(TagExit, Join(TagTrim, TagLower))))))))>>),
   MapX |-> Shape(<<"M", "X">>,
       <<Field("M", TRUE,
               Morph(Join(TagDive, Join(TagKeys, Join(Baba, Join(TagExit, TagTrim))))))>>),
   Nil |-> Shape(<<"N", "i">>,
       <<Field("P", TRUE, Morph(TagTrim)),
         Field("L", TRUE, Morph(Join(TagDive, TagTrim))),
         Field("M", TRUE, Morph(Join(TagDive, TagTrim))),
         Field("Q", TRUE, Morph(Join(TagDive, TagTrim)))>>),
   One |-> Shape(<<"O", "n">>,
       <<Field("V", TRUE, Morph(TagTrim)),
         Field("W", TRUE, Morph(TagUpper))>>),
   Dv |-> Shape(<<"D", "v">>,
       <<Field("S", TRUE, Morph(Join(TagTrim, Join(TagDive, TagLower)))),
         Field("T", TRUE, Morph(TagUpper))>>),
   Dv0 |-> Shape(<<"D", "0">>,
       <<Field("S", TRUE, Morph(Join(TagDive, TagLower)))>>),
   Bad |-> Shape(<<"B", "a">>,
       <<Field("String", TRUE, Morph(Baba))>>),
   BadP |-> Shape(<<"B", "P">>,
       <<Field("A", TRUE, Morph(Param(TagTruncate, <<"3">>))),
         Field("String", TRUE, Morph(Param(TagTruncate, Baba)))>>),
   Neg |-> Shape(<<"N", "g">>,
       <<Field("String", TRUE, Morph(Param(TagTruncate, <<"-", "1">>)))>>),
   NegP |-> Shape(<<"N", "P">>,
       <<Field("Num", TRUE, Morph(Param(TagPrecision, <<"-", "1">>)))>>),
   NoP |-> Shape(<<"N", "o">>,
       <<Field("Num", TRUE, Morph(TagPrecision))>>),
   EmptyP |-> Shape(<<"E", "P">>,
       <<Field("String", TRUE, Morph(Param(TagTruncate, <<>>)))>>),
   Elig |-> Shape(<<"E", "l">>,
       <<Field("A", TRUE, Morph(TagTrim)),
         Field("b", FALSE, Morph(TagTrim)),
         Field("C", TRUE, Morph(TagIgnore)),
         Field("inner", FALSE, NoTag),
         Field("Ign", TRUE, Morph(TagIgnore)),
         Field("D", TRUE, Morph(Join(TagIgnore, TagTrim))),
         Field("Rec", TRUE, NoTag)>>),
   EligInner |-> Shape(<<"E", "I">>,
       <<Field("X", TRUE, Morph(TagTrim)),
         Field("y", FALSE, Morph(TagTrim))>>),
   Two |-> Shape(<<"T", "w">>,
       <<Field("F", TRUE, (DefaultTag :> TagUpper) @@ (<<"c", "h">> :> TagTrim)),
         Field("G", TRUE, Morph(TagLower)),
         Field("H", TRUE, <<"c", "h">> :> TagIgnore)>>),
   Rec |-> Shape(<<"R", "c">>,
       <<Field("In", TRUE, NoTag),
         Field("PIn", TRUE, Morph(TagTrim)),
         Field("L", TRUE, Morph(TagDive)),
         Field("M", TRUE, Morph(TagDive)),
         Field("I", TRUE, NoTag)>>),
   RecInner |-> Shape(<<"R", "I">>,
       <<Field("X", TRUE, Morph(TagTrim))>>),
   WB |-> Shape(<<"W", "B">>,
       <<Field("V", TRUE, Morph(TagTrim)),
         Field("L", TRUE, Morph(Join(TagDive, TagTrim))),
         Field("M", TRUE, Morph(Join(TagDive, TagTrim))),
         Field("P", TRUE, Morph(TagTrim))>>),
   MD |-> Shape(<<"M", "D">>,
       <<Field("A", TRUE, Morph(Join(TagDive, TagTrim))),
         Field("B", TRUE, Morph(Join(TagDive, TagKeys))),
         Field("C", TRUE, Morph(Join(TagDive, Join(TagKeys, Join(TagExit, TagTrim)))))>>),
   MV |-> Shape(<<"M", "V">>,
       <<Field("M", TRUE,
               Morph(Join(TagDive, Join(TagKeys, Join(TagTrim, Join(TagExit, TagTrim))))))>>),
   KS |-> Shape(<<"K", "S">>,
       <<Field("L", TRUE, Morph(Join(TagTrim, TagUpper)))>>),
   KI |-> Shape(<<"K", "I">>,
       <<Field("L", TRUE, Morph(Join(TagDive, Join(TagTrim, TagLower))))>>),
   KF |-> Shape(<<"K", "F">>,
       <<Field("S", TRUE, Morph(Join(TagTrim, Join(TagCeil, TagUpper))))>>),
   KN |-> Shape(<<"K", "N">>,
       <<Field("N", TRUE, Morph(Join(Param(TagPrecision, <<"2">>), TagRound)))>>),
   KT |-> Shape(<<"K", "T", "r">>,
       <<Field("F", TRUE, Morph(Join(Param(TagTruncate, <<"1">>), TagFloor)))>>),
   MK |-> Shape(<<"M", "K">>,
       <<Field("M", TRUE,
               Morph(Join(TagDive, Join(TagKeys, Join(TagTrim, Join(TagCeil,
                     Join(TagExit, TagTrim)))))))>>),
   Loc1 |-> Shape(<<"t", "D">>,
       <<Field("F1", TRUE, Morph(TagTrim)),
         Field("F2", TRUE, Morph(TagUpper))>>),
   Loc2 |-> Shape(<<"t", "D">>,
       <<Field("G", TRUE, Morph(TagLower))>>),
   Anon1 |-> AnonShape(<<"s", "{", "A", "}">>,
       <<Field("A", TRUE, Morph(TagTrim))>>),
   Anon2 |-> AnonShape(<<"s", "{", "N", "S", "}">>,
       <<Field("N", TRUE, NoTag),
         Field("S", TRUE, Morph(TagUpper))>>),
   PkgA |-> ShapeIn(<<"a", "/", "m">>, <<"T">>,
       <<Field("S", TRUE, Morph(Param(TagTruncate, <<"1">>)))>>),
   PkgB |-> ShapeIn(<<"b", "/", "m">>, <<"T">>,
       <<Field("S", TRUE, Morph(Param(TagTruncate, <<"3">>)))>>)]

\* ------------------------------------------------------------- the compiler
\* What a Struct call threads through its steps: the two shared tables, the
\* record of what it did, and the shape whose compilation failed.
Event(op, tag, key, cacheKey, shape, index) ==
  [op |-> op, tag |-> tag, key |-> key, cacheKey |-> cacheKey, shape |-> shape, index |-> index]

Log(st, e) == [st EXCEPT !.trace = Append(@, e)]

\* util.go getParamsKey: fmt.Sprintf("%s.%d", valueType, fieldIndex).
getParamsKey(valueType, fieldIndex) == valueType \o <<".">> \o Itoa(fieldIndex)

\* An instruction of a chain (tagChainCache); next is the rest of the
\* sequence.  cacheKey records the key its Cache step was given.
TagChainCache(tag, params, transformer, cacheKey) ==
  [tag |-> tag, params |-> params, paramsKey |-> NilKey, transformer |-> transformer,
   keysChain |-> <<>>, cacheKey |-> cacheKey]

\* LET x == v IN F(x), with v evaluated as an argument: the value a Go local
\* variable holds once assigned.
With(v, F(_)) == F(v)

buildTagCache(tag, paramsKey, st) ==
  With(IndexRune(tag, ParamsSign), LAMBDA equalSignIndex :
    LET params == IF equalSignIndex > 0 THEN SubSeq(tag, equalSignIndex + 2, Len(tag))
                  ELSE <<>>
        name == IF equalSignIndex > 0 THEN SubSeq(tag, 1, equalSignIndex) ELSE tag
        ok == name \in DOMAIN transformers
        tr == IF ok THEN transformers[name] ELSE NilTransformer
        newTagCache == TagChainCache(name, params, tr, paramsKey)
    IN IF ~ok /\ name \notin navigationalTags
       THEN [tag |-> newTagCache, st |-> st,
             err |-> newErrorf("ErrUnknownTagFmt", name, "", <<>>)]
       ELSE IF tr # NilTransformer
       THEN With(Cache(tr, params, paramsKey, st.values), LAMBDA c :
              [tag |-> newTagCache,
               st |-> Log([st EXCEPT !.values = c.values],
                          Event("Cache", name, paramsKey, paramsKey, "", 0)),
               err |-> c.err])
       ELSE [tag |-> newTagCache, st |-> st, err |-> NoErr])

\* The fault of taking the exit token into the key sub-chain it ends.
RECURSIVE buildKeyTagsKeepsExit(_, _, _, _)
buildKeyTagsKeepsExit(allTags, i, paramsKey, st) ==
  IF i > Len(allTags) THEN [chain |-> <<>>, i |-> i, st |-> st, err |-> NoErr]
  ELSE With(buildTagCache(allTags[i], paramsKey, st), LAMBDA b :
         IF b.err # NoErr THEN [chain |-> <<>>, i |-> i, st |-> b.st, err |-> b.err]
         ELSE IF allTags[i] = TagExit
         THEN [chain |-> <<b.tag>>, i |-> i, st |-> b.st, err |-> NoErr]
         ELSE With(buildKeyTagsKeepsExit(allTags, i + 1, paramsKey, b.st), LAMBDA r :
                [chain |-> <<b.tag>> \o r.chain, i |-> r.i, st |-> r.st, err |-> r.err]))

\* The inner loop of buildTagsCache: the key sub-chain from token i on, up to
\* an exit token or the end; i is where the loop stopped.
RECURSIVE buildKeyTags(_, _, _, _)
buildKeyTags(allTags, i, paramsKey, st) ==
  IF i > Len(allTags) \/ allTags[i] = TagExit
  THEN [chain |-> <<>>, i |-> i, st |-> st, err |-> NoErr]
  ELSE With(buildTagCache(allTags[i], paramsKey, st), LAMBDA b :
         IF b.err # NoErr THEN [chain |-> <<>>, i |-> i, st |-> b.st, err |-> b.err]
         ELSE With(buildKeyTags(allTags, i + 1, paramsKey, b.st), LAMBDA r :
                [chain |-> <<b.tag>> \o r.chain, i |-> r.i, st |-> r.st, err |-> r.err]))

\* The outer loop of buildTagsCache from token i on.
RECURSIVE buildTags(_, _, _, _)
buildTags(allTags, i, paramsKey, st) ==
  IF i > Len(allTags) THEN [chain |-> <<>>, st |-> st, err |-> NoErr]
  ELSE With(buildTagCache(allTags[i], paramsKey, st), LAMBDA b :
         IF b.err # NoErr THEN [chain |-> <<>>, st |-> b.st, err |-> b.err]
         ELSE IF allTags[i] = TagKeys /\ i < Len(allTags)
         THEN With(buildKeyTags(allTags, i + 1, paramsKey, b.st), LAMBDA k :
                IF k.err # NoErr THEN [chain |-> <<>>, st |-> k.st, err |-> k.err]
                ELSE With(buildTags(allTags, k.i + 1, paramsKey, k.st), LAMBDA r :
                       [chain |-> <<[b.tag EXCEPT !.keysChain = k.chain]>> \o r.chain,
                        st |-> r.st, err |-> r.err]))
         ELSE With(buildTags(allTags, i + 1, paramsKey, b.st), LAMBDA r :
                [chain |-> <<b.tag>> \o r.chain, st |-> r.st, err |-> r.err]))

buildTagsCache(tagsRaw, paramsKey, st) ==
  With(buildTags(FieldsFunc(tagsRaw, TagSeparator), 1, paramsKey, st), LAMBDA r :
    IF r.err # NoErr THEN [chain |-> <<>>, st |-> r.st, err |-> r.err] ELSE r)

\* The fault of compiling the fields marked with the ignore marker too.
RECURSIVE buildFieldsKeepIgnored(_, _, _)
buildFieldsKeepIgnored(shape, i, st) ==
  IF i >= Len(Shapes[shape].fields) THEN [fields |-> <<>>, st |-> st, err |-> NoErr]
  ELSE LET field == Shapes[shape].fields[i + 1]
           tagsRaw == TagGet(field, tagName)
           paramsKey == getParamsKey(Shapes[shape].str, i)
       IN IF ~field.exported THEN buildFieldsKeepIgnored(shape, i + 1, st)
          ELSE With(IF Len(tagsRaw) > 0 THEN buildTagsCache(tagsRaw, paramsKey, st)
                    ELSE [chain |-> <<>>, st |-> st, err |-> NoErr], LAMBDA b :
                 IF b.err # NoErr THEN [fields |-> <<>>, st |-> b.st, err |-> b.err]
                 ELSE With(buildFieldsKeepIgnored(shape, i + 1, b.st), LAMBDA r :
                        LET tags == IF b.chain # <<>>
                                    THEN <<[b.chain[1] EXCEPT !.paramsKey = paramsKey]>>
                                           \o Tail(b.chain)
                                    ELSE <<>>
                        IN [fields |-> <<[index |-> i, tags |-> tags]>> \o r.fields,
                            st |-> r.st, err |-> r.err]))

\* The loop of buildStructCache from field i (zero-based) on.
RECURSIVE buildFields(_, _, _)
buildFields(shape, i, st) ==
  IF i >= Len(Shapes[shape].fields) THEN [fields |-> <<>>, st |-> st, err |-> NoErr]
  ELSE LET field == Shapes[shape].fields[i + 1]
           tagsRaw == TagGet(field, tagName)
           paramsKey == getParamsKey(Shapes[shape].str, i)
       IN IF ~field.exported \/ tagsRaw = TagIgnore THEN buildFields(shape, i + 1, st)
          ELSE With(IF Len(tagsRaw) > 0 THEN buildTagsCache(tagsRaw, paramsKey, st)
                    ELSE [chain |-> <<>>, st |-> st, err |-> NoErr], LAMBDA b :
                 IF b.err # NoErr THEN [fields |-> <<>>, st |-> b.st, err |-> b.err]
                 ELSE With(buildFields(shape, i + 1, b.st), LAMBDA r :
                        LET tags == IF b.chain # <<>>
                                    THEN <<[b.chain[1] EXCEPT !.paramsKey = paramsKey]>>
                                           \o Tail(b.chain)
                                    ELSE <<>>
                        IN [fields |-> <<[index |-> i, tags |-> tags]>> \o r.fields,
                            st |-> r.st, err |-> r.err]))

buildStructCache(shape, st) ==
  With(buildFields(shape, 0, st), LAMBDA r :
    IF r.err # NoErr THEN [cache |-> <<>>, st |-> r.st, err |-> r.err]
    ELSE [cache |-> [fieldsLength |-> Len(r.fields), fields |-> r.fields],
          st |-> r.st, err |-> NoErr])

\* fmt.Sprintf("%s/%s", PkgPath(), Name()).
StructKey(shape) == Shapes[shape].pkgPath \o <<"/">> \o Shapes[shape].name

\* The fault of caching a failed build: an empty descriptor is stored for the
\* shape, and the error still returned.
getStructCacheStoresFailure(shape, st) ==
  IF StructKey(shape) \in DOMAIN st.structsCache
  THEN [cache |-> st.structsCache[StructKey(shape)], st |-> st, err |-> NoErr]
  ELSE With(buildStructCache(shape, Log(st, Event("Build", <<>>, StructKey(shape),
                                                  StructKey(shape), shape, 0))), LAMBDA b :
         LET cache == IF b.err # NoErr THEN [fieldsLength |-> 0, fields |-> <<>>] ELSE b.cache
         IN [cache |-> cache,
             st |-> [b.st EXCEPT !.structsCache = (StructKey(shape) :> cache) @@ @,
                                 !.failed = IF b.err # NoErr THEN shape ELSE @],
             err |-> b.err])

getStructCache(shape, st) ==
  IF StructKey(shape) \in DOMAIN st.structsCache
  THEN [cache |-> st.structsCache[StructKey(shape)], st |-> st, err |-> NoErr]
  ELSE With(buildStructCache(shape, Log(st, Event("Build", <<>>, StructKey(shape),
                                                  StructKey(shape), shape, 0))), LAMBDA b :
         IF b.err # NoErr
         THEN [cache |-> <<>>, st |-> [b.st EXCEPT !.failed = shape], err |-> b.err]
         ELSE [cache |-> b.cache,
               st |-> [b.st EXCEPT !.structsCache = (StructKey(shape) :> b.cache) @@ @],
               err |-> NoErr])

\* ------------------------------------------------------- the traversal
RECURSIVE getActualValue(_, _)
RECURSIVE setActualValue(_, _)
RECURSIVE CopyView(_, _)
RECURSIVE walkChain(_, _, _, _, _, _)
RECURSIVE morphStruct(_, _, _)
RECURSIVE morphFields(_, _, _, _, _)
RECURSIVE morphFieldsKeepGoing(_, _, _, _, _)
RECURSIVE morphField(_, _, _, _)
RECURSIVE dive(_, _, _, _)
RECURSIVE morphItems(_, _, _, _, _)
RECURSIVE morphCollection(_, _, _, _)
RECURSIVE morphEntries(_, _, _, _)
RECURSIVE morphEntriesNoStore(_, _, _, _)
RECURSIVE morphMap(_, _, _)
RECURSIVE morphMapKey(_, _, _)

\* util.go getActualValue: follow pointers and interfaces down to a nil or
\* to a value of another kind.  canAddr is Value.CanAddr() of the result:
\* Elem() of a pointer is addressable, Elem() of an interface is not.
getActualValue(dataValue, canAddr) ==
  IF dataValue.k \in {"ptr", "interface"} /\ ~dataValue.nil
  THEN getActualValue(dataValue.elem, dataValue.k = "ptr")
  ELSE [v |-> dataValue, canAddr |-> canAddr]

\* The caller's value dataValue once the value getActualValue reached in it
\* holds actual.
setActualValue(dataValue, actual) ==
  IF dataValue.k \in {"ptr", "interface"} /\ ~dataValue.nil
  THEN [dataValue EXCEPT !.elem = setActualValue(dataValue.elem, actual)]
  ELSE actual

\* What storage holding old shows after a copy of it was changed into new
\* and not stored back: pointees, slice elements and map entries are shared
\* with the copy, everything else is not.
CopyView(old, new) ==
  CASE old.k = "ptr" -> new
    [] old.k \in {"slice", "map"} -> new
    [] old.k = "interface" ->
         IF old.nil \/ new.k # "interface" \/ new.nil THEN old
         ELSE Iface(CopyView(old.elem, new.elem))
    [] old.k = "struct" ->
         [old EXCEPT !.fields = [i \in 1..Len(old.fields) |-> CopyView(old.fields[i], new.fields[i])]]
    [] old.k = "array" ->
         [old EXCEPT !.items = [i \in 1..Len(old.items) |-> CopyView(old.items[i], new.items[i])]]
    [] OTHER -> old

\* util.go getAssignableValue: the working copy.  shared: the copy is the
\* same storage as value (newValue := *value); same: the pointer returned is
\* the pointer given, which it never is (it is the address of a local).
getAssignableValue(value, canAddr) ==
  IF value.k = "ptr"
  THEN [v |-> value.elem, shared |-> FALSE, same |-> FALSE]
  ELSE IF ~canAddr
  THEN [v |-> value, shared |-> FALSE, same |-> FALSE]
  ELSE [v |-> value, shared |-> TRUE, same |-> FALSE]

\* util.go assignValue: Value.Set needs an addressable target.
assignValue(target, value, canAddr) ==
  IF target.k = "ptr"
  THEN IF canAddr THEN [v |-> Ptr(value), err |-> NoErr]
       ELSE [v |-> target, err |-> PanicUnaddressable]
  ELSE IF ~canAddr THEN [v |-> target, err |-> PanicUnaddressable]
  ELSE [v |-> target, err |-> NoErr]

\* The loop of morphField: actual is what the original storage holds, new
\* what the working copy holds.
walkChain(tags, actual, new, shared, canAddr, st) ==
  IF tags = <<>> THEN [actual |-> actual, new |-> new, st |-> st, err |-> NoErr]
  ELSE IF tags[1].tag = TagDive
  THEN With(dive(actual, canAddr, Tail(tags), st), LAMBDA d :
         [actual |-> d.v, new |-> IF shared THEN d.v ELSE new, st |-> d.st, err |-> d.err])
  ELSE With(IF tags[1].transformer = NilTransformer THEN [v |-> new, err |-> NoErr]
            ELSE Transform(tags[1].transformer, new, tags[1].paramsKey, st.values), LAMBDA t :
         LET currentTag == tags[1]
             st1 == IF currentTag.transformer = NilTransformer THEN st
                    ELSE Log(st, Event("Transform", currentTag.tag, currentTag.paramsKey,
                                       currentTag.cacheKey, "", 0))
             actual1 == IF shared THEN t.v ELSE actual
         IN IF t.err # NoErr
            THEN [actual |-> actual1, new |-> t.v, st |-> st1, err |-> t.err]
            ELSE walkChain(Tail(tags), actual1, t.v, shared, canAddr, st1))

morphField(fieldValue, canAddr, tag, st) ==
  With(getActualValue(fieldValue, canAddr), LAMBDA a :
    IF a.v.k = "struct"
    THEN With(morphStruct(a.v, a.canAddr, st), LAMBDA r :
           [v |-> setActualValue(fieldValue, r.v), st |-> r.st, err |-> r.err])
    ELSE With(getAssignableValue(a.v, a.canAddr), LAMBDA n :
           With(walkChain(tag, a.v, n.v, n.shared, a.canAddr, st), LAMBDA w :
             With(IF w.err # NoErr \/ ~n.same THEN [v |-> w.actual, err |-> w.err]
                  ELSE assignValue(w.actual, w.new, a.canAddr), LAMBDA s :
               [v |-> setActualValue(fieldValue, s.v), st |-> w.st, err |-> s.err]))))

\* The fault of not stopping at a failing field: the fields after it are
\* processed too, and the first error is returned at the end.
morphFieldsKeepGoing(structValue, canAddr, strCache, i, st) ==
  IF i > strCache.fieldsLength THEN [v |-> structValue, st |-> st, err |-> NoErr]
  ELSE With(morphField(structValue.fields[strCache.fields[i].index + 1], canAddr,
                       strCache.fields[i].tags,
                       Log(st, Event("Field", <<>>, <<>>, <<>>, structValue.shape,
                                     strCache.fields[i].index))), LAMBDA f :
         With(morphFieldsKeepGoing(
                [structValue EXCEPT !.fields[strCache.fields[i].index + 1] = f.v],
                canAddr, strCache, i + 1, f.st), LAMBDA r :
           [v |-> r.v, st |-> r.st, err |-> IF f.err # NoErr THEN f.err ELSE r.err]))

\* The loop of morphStruct from descriptor entry i (one-based) on.
morphFields(structValue, canAddr, strCache, i, st) ==
  IF i > strCache.fieldsLength THEN [v |-> structValue, st |-> st, err |-> NoErr]
  ELSE IF strCache.fields[i].index >= Len(structValue.fields)
  THEN [v |-> structValue, st |-> st, err |-> PanicFieldIndex]
  ELSE With(morphField(structValue.fields[strCache.fields[i].index + 1], canAddr,
                       strCache.fields[i].tags,
                       Log(st, Event("Field", <<>>, <<>>, <<>>, structValue.shape,
                                     strCache.fields[i].index))), LAMBDA f :
         LET v1 == [structValue EXCEPT !.fields[strCache.fields[i].index + 1] = f.v]
         IN IF f.err # NoErr THEN [v |-> v1, st |-> f.st, err |-> f.err]
            ELSE morphFields(v1, canAddr, strCache, i + 1, f.st))

morphStruct(structValue, canAddr, st) ==
  With(getStructCache(structValue.shape, st), LAMBDA c :
    IF c.err # NoErr THEN [v |-> structValue, st |-> c.st, err |-> c.err]
    ELSE morphFields(structValue, canAddr, c.cache, 1, c.st))

\* The fault of diving into a scalar as into a container of one element:
\* the rest of the chain is applied to the value itself.
diveIntoScalar(actualValue, canAddr, tag, st) ==
  CASE actualValue.k \in {"slice", "array"} -> morphCollection(actualValue, canAddr, tag, st)
    [] actualValue.k = "map" -> morphMap(actualValue, tag, st)
    [] OTHER -> morphField(actualValue, canAddr, tag, st)

dive(actualValue, canAddr, tag, st) ==
  CASE actualValue.k \in {"slice", "array"} -> morphCollection(actualValue, canAddr, tag, st)
    [] actualValue.k = "map" -> morphMap(actualValue, tag, st)
    [] OTHER -> [v |-> actualValue, st |-> st,
                 err |-> newErrorf("ErrInvalidDiveFmt", <<>>, actualValue.k, <<>>)]

\* The loop of morphCollection from element i (one-based) on.  The elements
\* of a slice are addressable; those of an array are if the array is.
morphItems(sliceValue, canAddr, tags, i, st) ==
  IF i > Len(sliceValue.items) THEN [v |-> sliceValue, st |-> st, err |-> NoErr]
  ELSE With(morphField(sliceValue.items[i], sliceValue.k = "slice" \/ canAddr, tags, st),
            LAMBDA f :
         LET v1 == [sliceValue EXCEPT !.items[i] = f.v]
         IN IF f.err # NoErr THEN [v |-> v1, st |-> f.st, err |-> f.err]
            ELSE morphItems(v1, canAddr, tags, i + 1, f.st))

morphCollection(sliceValue, canAddr, tags, st) == morphItems(sliceValue, canAddr, tags, 1, st)

\* Value.MapKeys: the keys in an order the run time chooses (st.order lists
\* the keys the order is chosen among; a key it lacks comes last).
RECURSIVE SetToSeq(_)
SetToSeq(S) ==
  IF S = {} THEN <<>> ELSE LET x == CHOOSE x \in S : TRUE IN <<x>> \o SetToSeq(S \ {x})

MapKeys(m, order) ==
  SelectSeq(order, LAMBDA key : key \in DOMAIN m)
    \o SetToSeq({key \in DOMAIN m : \A i \in 1..Len(order) : order[i] # key})

\* The fault of not storing the walked value back under its key when the
\* keys are not walked.
morphEntriesNoStore(mapValue, keys, tags, st) ==
  IF keys = <<>> THEN [v |-> mapValue, st |-> st, err |-> NoErr]
  ELSE IF keys[1] \notin DOMAIN mapValue.m
  THEN [v |-> mapValue, st |-> st, err |-> PanicZeroValue]
  ELSE IF tags # <<>> /\ tags[1].tag = TagKeys /\ tags[1].keysChain # <<>>
  THEN With(morphMapKey(keys[1], tags[1].keysChain, st), LAMBDA k :
         LET removed == MapV(MapDelete(mapValue.m, keys[1]))
         IN IF k.err # NoErr THEN [v |-> removed, st |-> k.st, err |-> k.err]
            ELSE With(morphField(mapValue.m[keys[1]], TRUE, Tail(tags), k.st), LAMBDA f :
                   IF f.err # NoErr THEN [v |-> removed, st |-> f.st, err |-> f.err]
                   ELSE morphEntriesNoStore(MapV(MapSet(removed.m, k.v, f.v)), Tail(keys),
                                            tags, f.st)))
  ELSE With(morphField(mapValue.m[keys[1]], TRUE, tags, st), LAMBDA f :
         IF f.err # NoErr
         THEN [v |-> MapV(MapSet(mapValue.m, keys[1], CopyView(mapValue.m[keys[1]], f.v))),
               st |-> f.st, err |-> f.err]
         ELSE morphEntriesNoStore(
                MapV(MapSet(mapValue.m, keys[1], CopyView(mapValue.m[keys[1]], f.v))),
                Tail(keys), tags, f.st))

\* The loop of morphMap over the keys MapKeys returned.
morphEntries(mapValue, keys, tags, st) ==
  IF keys = <<>> THEN [v |-> mapValue, st |-> st, err |-> NoErr]
  ELSE IF keys[1] \notin DOMAIN mapValue.m
  THEN [v |-> mapValue, st |-> st, err |-> PanicZeroValue]
  ELSE IF tags # <<>> /\ tags[1].tag = TagKeys /\ tags[1].keysChain # <<>>
  THEN With(morphMapKey(keys[1], tags[1].keysChain, st), LAMBDA k :
         LET removed == MapV(MapDelete(mapValue.m, keys[1]))
         IN IF k.err # NoErr THEN [v |-> removed, st |-> k.st, err |-> k.err]
            ELSE With(morphField(mapValue.m[keys[1]], TRUE, Tail(tags), k.st), LAMBDA f :
                   IF f.err # NoErr THEN [v |-> removed, st |-> f.st, err |-> f.err]
                   ELSE morphEntries(MapV(MapSet(removed.m, k.v, f.v)), Tail(keys), tags,
                                     f.st)))
  ELSE With(morphField(mapValue.m[keys[1]], TRUE, tags, st), LAMBDA f :
         IF f.err # NoErr
         THEN [v |-> MapV(MapSet(mapValue.m, keys[1], CopyView(mapValue.m[keys[1]], f.v))),
               st |-> f.st, err |-> f.err]
         ELSE morphEntries(MapV(MapSet(mapValue.m, keys[1], f.v)), Tail(keys), tags, f.st))

morphMap(mapValue, tags, st) ==
  morphEntries(mapValue, MapKeys(mapValue.m, st.order), tags, st)

morphMapKey(key, tags, st) == morphField(key, TRUE, tags, st)

\* The fault of unwrapping the argument as a field is unwrapped: a pointer to
\* a pointer to a record is followed down to the record.
StructFollowsPointers(structPtr, st) ==
  IF structPtr.k # "ptr" THEN [v |-> structPtr, st |-> st, err |-> newError("ErrNotAPointer")]
  ELSE IF getActualValue(structPtr, FALSE).v.k # "struct"
  THEN [v |-> structPtr, st |-> st, err |-> newError("ErrNotAStruct")]
  ELSE With(morphStruct(getActualValue(structPtr, FALSE).v, TRUE, st), LAMBDA r :
         [v |-> setActualValue(structPtr, r.v), st |-> r.st, err |-> r.err])

\* morpher.Struct: the caller's argument after the call, the tables, and the
\* error returned.
Struct(structPtr, st) ==
  IF structPtr.k # "ptr" THEN [v |-> structPtr, st |-> st, err |-> newError("ErrNotAPointer")]
  ELSE IF structPtr.nil THEN [v |-> structPtr, st |-> st, err |-> newError("ErrNotAStruct")]
  ELSE IF structPtr.elem.k # "struct"
  THEN [v |-> structPtr, st |-> st, err |-> newError("ErrNotAStruct")]
  ELSE With(morphStruct(structPtr.elem, TRUE, st), LAMBDA r :
         [v |-> Ptr(r.v), st |-> r.st, err |-> r.err])

\* ------------------------------------------------------------ operations
\* The goroutines that call the morpher at the same time.
Goroutines == {"g1", "g2"}

\* A goroutine that is in no call: pc is its place in the code, the other
\* fields are the locals of Struct, getStructCache, buildStructCache,
\* buildTagsCache, buildTagCache, morphStruct and morphField.
Idle ==
  [pc |-> "idle", op |-> "", arg |-> Invalid, fields |-> <<>>, shape |-> "", ok |-> FALSE,
   strCache |-> [fieldsLength |-> 0, fields |-> <<>>], newFields |-> <<>>, fi |-> 0,
   allTags |-> <<>>, ti |-> 0, chain |-> <<>>, tag |-> <<>>, params |-> <<>>,
   found |-> FALSE, tr |-> NilTransformer, di |-> 0, cur |-> <<>>, err |-> NoErr]

\* New(): the default annotation key, the built-in transformers, no
\* descriptor, no parameter, the lock free.
Init ==
  /\ tagName = DefaultTag
  /\ transformers =
       (TagTrim :> "trimTransformer") @@ (TagLower :> "toLowerTransformer")
       @@ (TagUpper :> "toUpperTransformer") @@ (TagTruncate :> "truncateTransformer")
       @@ (TagCeil :> "ceilTransformer") @@ (TagFloor :> "floorTransformer")
       @@ (TagRound :> "roundTransformer") @@ (TagPrecision :> "precisionTransformer")
  /\ structsCache = <<>>
  /\ Values = [truncateTransformer |-> <<>>, precisionTransformer |-> <<>>]
  /\ lastOp = "New"
  /\ lastArg = Invalid
  /\ lastOut = Invalid
  /\ lastErr = NoErr
  /\ lastTrace = <<>>
  /\ lastFailed = ""
  /\ lastName = <<>>
  /\ lastFail = [shape |-> "", arg |-> Invalid, err |-> NoErr, transformers |-> <<>>,
                 tagName |-> <<>>]
  /\ calls = 0
  /\ mutex = [writer |-> "", readers |-> [t \in Goroutines |-> 0]]
  /\ goroutines = [t \in Goroutines |-> Idle]
  /\ writes = <<>>

\* The keys of the maps in a value, and the orders MapKeys may list them in.
RECURSIVE KeysOf(_)
KeysOf(v) ==
  CASE v.k \in {"ptr", "interface"} -> IF v.nil THEN {} ELSE KeysOf(v.elem)
    [] v.k \in {"slice", "array"} -> UNION {KeysOf(v.items[i]) : i \in 1..Len(v.items)}
    [] v.k = "struct" -> UNION {KeysOf(v.fields[i]) : i \in 1..Len(v.fields)}
    [] v.k = "map" -> DOMAIN v.m \cup UNION {KeysOf(v.m[key]) : key \in DOMAIN v.m}
    [] OTHER -> {}

Orders(S) ==
  {o \in [1..Cardinality(S) -> S] : \A i, j \in 1..Cardinality(S) : i # j => o[i] # o[j]}

\* One synchronous call of Struct on a record of the caller.
StructCall(inputs) ==
  /\ calls < MaxCalls
  /\ \E x \in inputs : \E order \in Orders(KeysOf(x)) :
       \E r \in {Struct(x, [structsCache |-> structsCache, values |-> Values,
                            trace |-> <<>>, failed |-> "", order |-> order])} :
          /\ structsCache' = r.st.structsCache
          /\ Values' = r.st.values
          /\ lastOp' = "Struct"
          /\ lastArg' = x
          /\ lastOut' = r.v
          /\ lastErr' = r.err
          /\ lastTrace' = r.st.trace
          /\ lastFailed' = r.st.failed
          /\ lastFail' = IF r.st.failed # ""
                         THEN [shape |-> r.st.failed, arg |-> x, err |-> r.err,
                               transformers |-> transformers, tagName |-> tagName]
                         ELSE lastFail
  /\ lastName' = <<>>
  /\ calls' = calls + 1
  /\ UNCHANGED <<tagName, transformers, concVars>>

\* The fault of looking the name up among the reserved names before it is
\* trimmed: a reserved name padded with spaces is installed.
RegisterUntrimmedCheck(tag, transformer) ==
  LET name == TrimSpace(tag)
  IN IF Len(name) = 0 THEN [transformers |-> transformers, err |-> newError("ErrInvalidTagName")]
     ELSE IF tag \in navigationalTags
     THEN [transformers |-> transformers,
           err |-> newErrorf("ErrReservedTagOverride", name, "", <<>>)]
     ELSE IF transformer = NilTransformer
     THEN [transformers |-> transformers, err |-> newError("ErrInvalidTransformer")]
     ELSE [transformers |-> [x \in (DOMAIN transformers) \cup {name} |->
                               IF x = name THEN transformer ELSE transformers[x]],
           err |-> NoErr]

\* The FieldTransformer argument of a Register call, as recorded in lastArg.
TransformerArg(transformer) == [k |-> "FieldTransformer", t |-> transformer]

\* morpher.Register: the registry after the call and the error.
Register(tag, transformer) ==
  LET name == TrimSpace(tag)
  IN IF Len(name) = 0 THEN [transformers |-> transformers, err |-> newError("ErrInvalidTagName")]
     ELSE IF name \in navigationalTags
     THEN [transformers |-> transformers,
           err |-> newErrorf("ErrReservedTagOverride", name, "", <<>>)]
     ELSE IF transformer = NilTransformer
     THEN [transformers |-> transformers, err |-> newError("ErrInvalidTransformer")]
     ELSE [transformers |-> [x \in (DOMAIN transformers) \cup {name} |->
                               IF x = name THEN transformer ELSE transformers[x]],
           err |-> NoErr]

RegisterCall(names, trs) ==
  /\ calls < MaxCalls
  /\ \E tag \in names, transformer \in trs :
       LET r == Register(tag, transformer)
       IN /\ transformers' = r.transformers
          /\ lastErr' = r.err
          /\ lastName' = tag
          /\ lastArg' = TransformerArg(transformer)
  /\ lastOp' = "Register"
  /\ lastOut' = Invalid
  /\ lastTrace' = <<>>
  /\ lastFailed' = ""
  /\ calls' = calls + 1
  /\ UNCHANGED <<tagName, structsCache, Values, lastFail, concVars>>

\* morpher.WithTag: the annotation key after the call; a blank key panics.
WithTag(tag) ==
  LET name == TrimSpace(tag)
  IN IF Len(name) = 0 THEN [tagName |-> tagName, err |-> PanicInvalidTagName]
     ELSE [tagName |-> name, err |-> NoErr]

WithTagCall(names) ==
  /\ calls < MaxCalls
  /\ \E tag \in names :
       LET r == WithTag(tag)
       IN /\ tagName' = r.tagName
          /\ lastErr' = r.err
          /\ lastName' = tag
  /\ lastOp' = "WithTag"
  /\ lastArg' = Invalid
  /\ lastOut' = Invalid
  /\ lastTrace' = <<>>
  /\ lastFailed' = ""
  /\ calls' = calls + 1
  /\ UNCHANGED <<transformers, structsCache, Values, lastFail, concVars>>

\* ------------------------------------------------------------------ inputs
S1(a) == Str(<<a>>)
S2(a, b) == Str(<<a, b>>)
S3(a, b, c) == Str(<<a, b, c>>)
S4(a, b, c, d) == Str(<<a, b, c, d>>)
EmptyStr == Str(<<>>)

BadRecord == StructV("Bad", <<S3(" ", "d", " ")>>)

\* Arguments Struct refuses: the untyped nil, a record passed by value, a nil
\* pointer to a record, a pointer to a string, a pointer to a pointer.
InUntypedNil == Invalid
InByValue == BadRecord
InNilPtr == NilPtr(StructV("Bad", <<EmptyStr>>))
InPtrString == Ptr(S1("s"))
InPtrPtr == Ptr(Ptr(BadRecord))

InPlain ==
  Ptr(StructV("Plain",
      <<S3(" ", "a", " "), S3(" ", "B", " "), S2("c", " "), S2(" ", "d"),
        StructV("PlainInner", <<S3(" ", "x", " "), Ptr(S2(" ", "Y"))>>),
        Slice(<<S3(" ", "l", " ")>>)>>))

Trio(f2) == Ptr(StructV("Trio", <<S4(" ", "A", "b", " "), f2, S2("c", "d")>>))

InTrioOK == Trio(Iface(Slice(<<S3(" ", "a", " "), S2("B", " ")>>)))
InTrioDiveStr == Trio(Iface(S3(" ", "x", " ")))
InTrioElem ==
  Trio(Iface(Slice(<<Iface(Ptr(S3(" ", "a", " "))), Iface(IntV(5)),
                     Iface(Ptr(S3(" ", "b", " ")))>>)))
InTrioBad == Trio(Iface(Ptr(BadRecord)))
InTrioNil == Trio(NilIface)

InSeq ==
  Ptr(StructV("Seq",
      <<Slice(<<S3(" ", "A", " "), S2("b", " "), S2(" ", "C")>>),
        Array(<<S1("a"), S1("b")>>)>>))

InDoc == Ptr(StructV("Doc", <<Str(<<" ", "A", "b", "C", "d", "E", "f", " ">>)>>))

InNums == Ptr(StructV("Nums", <<Slice(<<Flt(1567), Flt(2001)>>)>>))

InHead == Ptr(StructV("Head", <<Str(<<"a", "b", "c", "d", "e", "f", " ">>), Flt(1567)>>))

InKeyT == Ptr(StructV("KeyT", <<MapV(S2("a", "b") :> S1("v"))>>))

InMaps ==
  Ptr(StructV("Maps", <<MapV((S2(" ", "K") :> S3(" ", "V", " ")) @@ (S2("y", " ") :> S1("S")))>>))

InMapsCollide ==
  Ptr(StructV("Maps", <<MapV((S2(" ", "k") :> S1("a")) @@ (S1("k") :> S1("b")))>>))

InMapX ==
  Ptr(StructV("MapX", <<MapV((S1("a") :> S3(" ", "v", " ")) @@ (S2("a", "x") :> S3(" ", "w", " ")))>>))

Nils(q) ==
  Ptr(StructV("Nil",
      <<NilPtr(EmptyStr),
        Slice(<<NilPtr(EmptyStr), Ptr(S3(" ", "a", " "))>>),
        MapV(S1("k") :> NilPtr(EmptyStr)),
        q>>))

InNilOK == Nils(Ptr(Slice(<<S3(" ", "q", " ")>>)))
InNilDive == Nils(NilPtr(Slice(<<>>)))

One(v) == Ptr(StructV("One", <<v, S1("w")>>))

InOneStr == One(Iface(S3(" ", "a", " ")))
InOneNil == One(NilIface)
InOnePtr == One(Iface(Ptr(S3(" ", "a", " "))))

InDv == Ptr(StructV("Dv", <<S4(" ", "A", "b", " "), S1("t")>>))
InDv0 == Ptr(StructV("Dv0", <<S2("A", "b")>>))
InBad == Ptr(BadRecord)
InBadP == Ptr(StructV("BadP", <<S4("a", "b", "c", "d"), S1("x")>>))

Inputs ==
  {InUntypedNil, InByValue, InNilPtr, InPtrString, InPtrPtr, InPlain, InTrioOK, InTrioDiveStr,
   InTrioElem, InTrioBad, InTrioNil, InSeq, InDoc, InNums, InHead, InKeyT, InMaps,
   InMapsCollide, InMapX, InNilOK, InNilDive, InOneStr, InOneNil, InOnePtr, InDv, InDv0,
   InBad, InBadP}

\* What Register is called with: a custom directive (padded with spaces), a
\* blank name, a reserved name; a transformer or none.
RegisterNames == {<<" ">> \o Baba \o <<" ">>, <<" ", " ">>, TagDive}
RegisterTransformers == {"funcTransformer:append", NilTransformer}

\* What WithTag is called with: another annotation key, a blank key.
ChangeTag == <<"c", "h">>
WithTagNames == {ChangeTag \o <<" ">>, <<" ">>}

Next ==
  \/ StructCall(Inputs)
  \/ RegisterCall(RegisterNames, RegisterTransformers)
  \/ WithTagCall(WithTagNames)

Spec == Init /\ [][Next]_vars

\* ------------------------------------------------------------------ claims
\* A Struct step, and the argument kinds Struct tells apart.
StructStep == lastOp' = "Struct" /\ calls' = calls + 1

IsRecordPtr(x) == x.k = "ptr" /\ ~x.nil /\ x.elem.k = "struct"

IsTransform(e) == e.op = "Transform"

\* The visits of the fields of the argument's own record, in the order made.
RootVisits ==
  SelectSeq(lastTrace, LAMBDA e : e.op = "Field" /\ e.shape = lastArg.elem.shape)

InvalidDive(kind) == newErrorf("ErrInvalidDiveFmt", <<>>, kind, <<>>)

\* C1: Struct(x) returns NotAPointer when x is no pointer (the untyped nil
\* included) and NotAStruct when x is a nil pointer or points to anything
\* but a record; in both cases the call visits no field, builds nothing,
\* changes nothing of the caller's data and leaves the descriptor table and
\* the parameter store as they were.  For any other argument the call goes
\* into the record pointed to (its first step is the build of that record's
\* descriptor or the visit of one of its fields) and returns neither of the
\* two errors.
C1_Step ==
  StructStep =>
    LET x == lastArg'
        untouched == /\ lastOut' = x
                     /\ lastTrace' = <<>>
                     /\ structsCache' = structsCache
                     /\ Values' = Values
    IN IF x.k # "ptr" THEN lastErr' = newError("ErrNotAPointer") /\ untouched
       ELSE IF x.nil \/ x.elem.k # "struct"
       THEN lastErr' = newError("ErrNotAStruct") /\ untouched
       ELSE /\ lastErr'.fmt \notin {"ErrNotAPointer", "ErrNotAStruct"}
            /\ lastTrace' # <<>>
            /\ lastTrace'[1].op \in {"Build", "Field"}
            /\ lastTrace'[1].shape = x.elem.shape

\* C1: every step that is a Struct call keeps the entry contract.
C1_EntryContract == [][C1_Step]_vars

\* A pointer to a pointer to a record is refused while descriptors are cached.
C1_Witness ==
  /\ lastOp = "Struct"
  /\ lastArg = InPtrPtr
  /\ lastErr = newError("ErrNotAStruct")
  /\ structsCache # <<>>

\* C2: the fields of a record are visited in declaration order and the
\* traversal stops at the first field that returns an error: Struct returns
\* that field's error, every field visited before it holds the value its own
\* chain gives it (nothing is rolled back), and every field after it is
\* neither visited nor changed.  Without an error every eligible field is
\* visited.
C2_DeclarationOrderFailFast ==
  (lastOp = "Struct" /\ IsRecordPtr(lastArg) /\ lastFailed # lastArg.elem.shape
     /\ ~IsPanic(lastErr)) =>
    LET in == lastArg.elem.fields
        out == lastOut.elem.fields
        strCache == structsCache[StructKey(lastArg.elem.shape)]
        visits == RootVisits
        chainOf(j) == (CHOOSE f \in {strCache.fields[n] : n \in 1..strCache.fieldsLength} :
                         f.index = j).tags
        alone(j, order) ==
          morphField(in[j + 1], TRUE, chainOf(j),
                     [structsCache |-> structsCache, values |-> Values, trace |-> <<>>,
                      failed |-> "", order |-> order])
    IN /\ Len(visits) <= strCache.fieldsLength
       /\ \A n \in 1..Len(visits) : visits[n].index = strCache.fields[n].index
       /\ \A n, m \in 1..strCache.fieldsLength :
            n < m => strCache.fields[n].index < strCache.fields[m].index
       /\ IF lastErr = NoErr
          THEN Len(visits) = strCache.fieldsLength
          ELSE /\ Len(visits) >= 1
               /\ LET k == visits[Len(visits)].index
                  IN \E order \in Orders(KeysOf(lastArg)) :
                       /\ lastErr = alone(k, order).err
                       /\ \A n \in 1..(Len(visits) - 1) :
                            /\ alone(visits[n].index, order).err = NoErr
                            /\ out[visits[n].index + 1] = alone(visits[n].index, order).v
                       /\ \A j \in (k + 1)..(Len(in) - 1) : out[j + 1] = in[j + 1]

\* The second of three fields fails on its second element: the first field and
\* the first element are transformed, the third element and field are not.
C2_Witness ==
  /\ lastOp = "Struct"
  /\ lastArg = InTrioElem
  /\ lastErr = newErrorf("ErrUnexpectedValue", TagTrim, "int", <<>>)
  /\ lastOut.elem.fields[1] = S2("a", "b")
  /\ lastOut.elem.fields[2].elem.items[1] = Iface(Ptr(S1("a")))
  /\ lastOut.elem.fields[2].elem.items[3] = lastArg.elem.fields[2].elem.items[3]
  /\ lastOut.elem.fields[3] = lastArg.elem.fields[3]
  /\ Len(RootVisits) = 2

\* C3: for a field annotated dive,X whose value is a sequence or an array,
\* X is applied to each element in index order: with X = trim,lower and
\* X = upper every element ends as X makes it, and with X = precision=2
\* (the documented chain) every float ends cut to two decimals, the call
\* succeeding.
C3_DiveAppliesChainToEachElement ==
  (lastOp = "Struct" /\ tagName = DefaultTag) =>
    LET in == lastArg.elem.fields
        out == lastOut.elem.fields
    IN /\ lastArg = InSeq =>
            /\ lastErr = NoErr
            /\ \A i \in 1..Len(in[1].items) :
                 out[1].items[i] = Str(ToLower(TrimSpace(in[1].items[i].s)))
            /\ \A i \in 1..Len(in[2].items) :
                 out[2].items[i] = Str(ToUpper(in[2].items[i].s))
       /\ lastArg = InNums =>
            /\ lastErr = NoErr
            /\ \A i \in 1..Len(in[1].items) :
                 out[1].items[i] = Flt(Precision(in[1].items[i].f, 2))

\* C4: for a field annotated dive,keys,K,exit,V whose value is a map, no two
\* transformed keys being equal, a successful call leaves as many entries as
\* there were, and for every original entry (k, v) the map holds V(v) under
\* K(k).
C4_MapEntriesRenamed ==
  (lastOp = "Struct" /\ tagName = DefaultTag /\ lastArg \in {InMaps, InMapX}
     /\ lastErr = NoErr) =>
    LET in == lastArg.elem.fields[1].m
        out == lastOut.elem.fields[1].m
        K(k) == IF lastArg = InMaps THEN Str(ToLower(TrimSpace(k.s)))
                ELSE funcTransform(transformers[Baba], k).v
        V(v) == IF lastArg = InMaps THEN Str(ToLower(TrimSpace(v.s)))
                ELSE Str(TrimSpace(v.s))
    IN (\A k1, k2 \in DOMAIN in : k1 # k2 => K(k1) # K(k2)) =>
         /\ Cardinality(DOMAIN out) = Cardinality(DOMAIN in)
         /\ \A k \in DOMAIN in : K(k) \in DOMAIN out /\ out[K(k)] = V(in[k])

\* C5: every Transform call receives the key its instruction's Cache call
\* stored the parameter under, whatever the instruction's place in the
\* chain; so the documented chain trim,lower,truncate=5 succeeds and leaves
\* the trimmed, lower-cased string cut to five characters.
C5_TransformReceivesCacheKey ==
  lastOp = "Struct" =>
    /\ \A i \in 1..Len(lastTrace) :
         IsTransform(lastTrace[i]) => lastTrace[i].key = lastTrace[i].cacheKey
    /\ (tagName = DefaultTag /\ lastArg = InDoc) =>
         /\ lastErr = NoErr
         /\ lastOut = Ptr(StructV("Doc", <<Str(<<"a", "b", "c", "d", "e">>)>>))

\* C6: whatever its chain, a field, element or map value that is a nil
\* pointer or a nil interface is left nil and gives no error.
C6_NilLeftNilWithoutError ==
  (lastOp = "Struct" /\ lastArg \in {InNilOK, InNilDive, InOneNil, InTrioNil}) =>
    /\ lastErr = NoErr
    /\ \A j \in 1..Len(lastArg.elem.fields) :
         (lastArg.elem.fields[j].k \in {"ptr", "interface"} /\ lastArg.elem.fields[j].nil)
           => lastOut.elem.fields[j] = lastArg.elem.fields[j]

\* C7: in a map walk with a key sub-chain, in every iteration order, no
\* entry is lost when a key is renamed to a key another entry has: every
\* original value is found, transformed once, in the map afterwards, and
\* the map has as many entries as it had.
C7_NoEntryLostOnRename ==
  (lastOp = "Struct" /\ tagName = DefaultTag /\ lastArg = InMapX /\ lastErr = NoErr) =>
    LET in == lastArg.elem.fields[1].m
        out == lastOut.elem.fields[1].m
    IN /\ {out[k] : k \in DOMAIN out} = {Str(TrimSpace(in[k].s)) : k \in DOMAIN in}
       /\ Cardinality(DOMAIN out) = Cardinality(DOMAIN in)

\* Every record the call visited had its descriptor built by the call.
BuiltInThisCall ==
  \A i \in 1..Len(lastTrace) :
    lastTrace[i].op = "Field" =>
      \E j \in 1..i : lastTrace[j].op = "Build" /\ lastTrace[j].shape = lastTrace[i].shape

\* C8: a record whose fields, at every depth, carry no annotation, an empty
\* one or one made of separators only (under the key the morpher reads) is
\* processed with success and left as it was; such an annotation compiles to
\* an empty chain.
C8_NoAnnotationIsIdentity ==
  (lastOp = "Struct" /\ IsRecordPtr(lastArg)
     /\ (lastArg = InPlain \/ (tagName = ChangeTag /\ BuiltInThisCall))) =>
    /\ lastErr = NoErr
    /\ lastOut = lastArg
    /\ \A e \in {lastTrace[i] : i \in 1..Len(lastTrace)} : e.op \in {"Build", "Field"}
    /\ LET strCache == structsCache[StructKey(lastArg.elem.shape)]
       IN /\ strCache.fieldsLength = Len(lastArg.elem.fields)
          /\ \A n \in 1..strCache.fieldsLength : strCache.fields[n].tags = <<>>

\* The record with absent, empty and separator-only annotations, nested
\* record included, is compiled under the default key and gone through.
C8_Witness ==
  /\ lastOp = "Struct"
  /\ lastArg = InPlain
  /\ tagName = DefaultTag
  /\ lastErr = NoErr
  /\ \E i \in 1..Len(lastTrace) : lastTrace[i].op = "Build" /\ lastTrace[i].shape = "Plain"
  /\ \E i \in 1..Len(lastTrace) : lastTrace[i].op = "Field" /\ lastTrace[i].shape = "PlainInner"

\* The tags of the Transform calls of the last Struct call, in order.
TransformsDone ==
  LET t == SelectSeq(lastTrace, IsTransform) IN [i \in 1..Len(t) |-> t[i].tag]

\* C9: a chain that reaches dive on a string (in the field itself or in an
\* interface) fails with InvalidDive naming the kind string; no instruction
\* after dive is executed, the value is left as it was when dive was reached
\* (as the input when dive is first, as the instructions before dive made it
\* otherwise), and the fields after it are not touched.
C9_DiveOnScalar ==
  (lastOp = "Struct" /\ tagName = DefaultTag) =>
    /\ lastArg = InDv0 =>
         /\ lastErr = InvalidDive("string")
         /\ lastOut = lastArg
         /\ TransformsDone = <<>>
    /\ lastArg = InDv =>
         /\ lastErr = InvalidDive("string")
         /\ lastOut = Ptr(StructV("Dv", <<S2("A", "b"), S1("t")>>))
         /\ TransformsDone = <<TagTrim>>
    /\ lastArg = InTrioDiveStr =>
         /\ lastErr = InvalidDive("string")
         /\ lastOut.elem.fields[2] = lastArg.elem.fields[2]
         /\ lastOut.elem.fields[3] = lastArg.elem.fields[3]
         /\ TransformsDone = <<TagTrim, TagLower>>

\* dive after trim on a plain string: trim has run, lower has not.
C9_Witness ==
  /\ lastOp = "Struct"
  /\ tagName = DefaultTag
  /\ lastArg = InDv
  /\ lastErr = InvalidDive("string")
  /\ lastOut.elem.fields[1] = S2("A", "b")

\* C10, as stated: a Struct call on the argument whose compilation failed
\* last fails again, with the same error, while the registry is unchanged.
C10_FailsAgainStep ==
  (StructStep /\ lastFail.shape # "" /\ lastArg' = lastFail.arg
     /\ transformers = lastFail.transformers) =>
    (lastErr' = lastFail.err /\ lastFailed' = lastFail.shape)

\* C10, as stated: every retry with the registry unchanged fails again.
C10_FailsAgainWhileRegistryUnchanged == [][C10_FailsAgainStep]_vars

\* C10, amended: a failed compilation (an unknown directive gives UnknownTag
\* naming it, a failing Cache step gives its error) stores no descriptor for
\* the shape.  The next Struct call on the same argument builds the shape
\* again; it fails again with the same error while the registry and the
\* annotation key are unchanged, and it succeeds once the directive named by
\* UnknownTag is registered (the annotation key unchanged).
C10_Step ==
  StructStep =>
    /\ lastFailed' # "" =>
         /\ StructKey(lastFailed') \notin DOMAIN structsCache'
         /\ lastErr'.fmt \in {"ErrUnknownTagFmt", "ErrInvalidParameters"}
         /\ lastErr'.fmt = "ErrUnknownTagFmt" =>
              lastErr'.tag \notin (DOMAIN transformers) \cup navigationalTags
    /\ (lastFail.shape # "" /\ lastArg' = lastFail.arg) =>
         /\ StructKey(lastFail.shape) \notin DOMAIN structsCache =>
              \E i \in 1..Len(lastTrace') :
                lastTrace'[i].op = "Build" /\ lastTrace'[i].shape = lastFail.shape
         /\ (transformers = lastFail.transformers /\ tagName = lastFail.tagName) =>
              (lastErr' = lastFail.err /\ lastFailed' = lastFail.shape)
         /\ (lastFail.err.fmt = "ErrUnknownTagFmt" /\ lastFail.err.tag \in DOMAIN transformers
               /\ tagName = lastFail.tagName) =>
              (lastErr' = NoErr /\ lastFailed' = ""
                 /\ StructKey(lastFail.shape) \in DOMAIN structsCache')

\* C10, amended: every Struct step stores no failed build and retries it.
C10_FailedBuildNotCached == [][C10_Step]_vars

\* The retry after the missing directive was registered: it succeeds.
C10_Witness ==
  /\ lastOp = "Struct"
  /\ lastFail.shape # ""
  /\ lastArg = lastFail.arg
  /\ lastFail.err.fmt = "ErrUnknownTagFmt"
  /\ lastFail.err.tag \in DOMAIN transformers
  /\ tagName = lastFail.tagName
  /\ lastErr = NoErr

\* ------------------------------------------------------ Register alone
\* Register called with every kind of name (a new directive, built-in ones,
\* blank and empty ones, each reserved name, one of them padded) and with two
\* transformers or none.
RegisterAllNames ==
  {<<" ">> \o Baba \o <<" ">>, Baba, TagTrim, TagRound \o <<" ">>, <<" ", " ">>, <<>>,
   TagDive, <<" ">> \o TagKeys, TagExit, TagIgnore}
RegisterAllTransformers == {"funcTransformer:append", "funcTransformer:set", NilTransformer}

NextRegister == RegisterCall(RegisterAllNames, RegisterAllTransformers)

SpecRegister == Init /\ [][NextRegister]_vars

RegisterStep == lastOp' = "Register" /\ calls' = calls + 1

\* The registry maps no reserved name and no blank name.
RegistryClean(reg) ==
  \A name \in DOMAIN reg : name \notin navigationalTags /\ TrimSpace(name) # <<>>

C11_Step ==
  RegisterStep =>
    LET name == TrimSpace(lastName')
        t == lastArg'.t
        failsWith(e) == lastErr' = e /\ transformers' = transformers
    IN /\ IF name = <<>> THEN failsWith(newError("ErrInvalidTagName"))
          ELSE IF name \in {TagDive, TagKeys, TagExit, TagIgnore}
          THEN failsWith(newErrorf("ErrReservedTagOverride", name, "", <<>>))
          ELSE IF t = NilTransformer THEN failsWith(newError("ErrInvalidTransformer"))
          ELSE /\ lastErr' = NoErr
               /\ DOMAIN transformers' = (DOMAIN transformers) \cup {name}
               /\ transformers'[name] = t
               /\ \A other \in (DOMAIN transformers) \ {name} :
                    transformers'[other] = transformers[other]
       /\ RegistryClean(transformers')
       /\ UNCHANGED <<tagName, structsCache, Values>>

\* C11: Register(name, t) fails with InvalidTagName when name is blank after
\* trimming, with ReservedTagOverride (naming it) when the trimmed name is
\* dive, keys, exit or -, and with InvalidTransformer when t is nil, the
\* registry staying as it was; otherwise t is installed under the trimmed
\* name, in place of any built-in or earlier entry, every other entry kept.
\* The registry never maps a reserved or a blank name.
C11_RegisterContract == RegistryClean(transformers) /\ [][C11_Step]_vars

\* A built-in directive and an earlier custom entry have both been replaced,
\* and the last call, on a padded reserved name, was refused.
C11_Witness ==
  /\ lastOp = "Register"
  /\ lastName = <<" ">> \o TagKeys
  /\ lastErr = newErrorf("ErrReservedTagOverride", TagKeys, "", <<>>)
  /\ transformers[TagTrim] = "funcTransformer:set"
  /\ Baba \in DOMAIN transformers

\* ---------------------------------------------------- concurrent callers
\* Calls of Struct and Register made by several goroutines at once, one
\* step per operation of the lock, per access to a shared table and per
\* stretch of code between them.  The records of these callers have scalar
\* fields and annotations without dive and keys, so that of buildTagsCache
\* the outer loop and of morphField the transformer loop are gone through.
seqVars ==
  <<lastOp, lastArg, lastOut, lastErr, lastTrace, lastFailed, lastName, lastFail>>

SetGo(t, g) == goroutines' = [goroutines EXCEPT ![t] = g]

\* The call returns err (or panics with it): the locals are gone, the
\* caller's record and the outcome stay.
Return(g, err) ==
  [Idle EXCEPT !.op = g.op, !.arg = g.arg, !.fields = g.fields, !.shape = g.shape,
               !.err = err]

\* sync.RWMutex: RLock waits for the writer to unlock, Lock for the writer
\* and every reader.
CanRLock == mutex.writer = ""
CanLock == mutex.writer = "" /\ \A t \in Goroutines : mutex.readers[t] = 0

Written(table, key) ==
  writes' = IF <<table, key>> \in DOMAIN writes
            THEN [writes EXCEPT ![<<table, key>>] = @ + 1]
            ELSE (<<table, key>> :> 1) @@ writes

\* The key buildStructCache gives the tokens of the field it is at.
FieldKey(g) == getParamsKey(Shapes[g.shape].str, g.fi)

\* The fault of a lookup that never finds the descriptor.
LookupAlwaysMisses(key) == [ok |-> FALSE, strCache |-> Idle.strCache]

\* strCache, ok := c.structsCache[key]
Lookup(key) ==
  IF key \in DOMAIN structsCache THEN [ok |-> TRUE, strCache |-> structsCache[key]]
  ELSE [ok |-> FALSE, strCache |-> Idle.strCache]

\* A goroutine calls Struct: the checks of the argument, then getStructCache.
GoStruct(t, inputs) ==
  /\ goroutines[t].pc = "idle"
  /\ calls < MaxCalls
  /\ \E x \in inputs :
       SetGo(t, IF x.k # "ptr"
                THEN Return([Idle EXCEPT !.op = "Struct", !.arg = x], newError("ErrNotAPointer"))
                ELSE IF x.nil \/ x.elem.k # "struct"
                THEN Return([Idle EXCEPT !.op = "Struct", !.arg = x], newError("ErrNotAStruct"))
                ELSE [Idle EXCEPT !.op = "Struct", !.arg = x, !.fields = x.elem.fields,
                                  !.shape = x.elem.shape, !.pc = "sc_RLock"])
  /\ calls' = calls + 1
  /\ UNCHANGED <<tagName, transformers, structsCache, Values, seqVars, mutex, writes>>

\* A goroutine calls Register: the checks, then the write under the lock.
GoRegister(t, names, trs) ==
  /\ goroutines[t].pc = "idle"
  /\ calls < MaxCalls
  /\ \E tag \in names, transformer \in trs :
       LET call == [Idle EXCEPT !.op = "Register", !.tag = TrimSpace(tag), !.tr = transformer]
       IN SetGo(t, IF Register(tag, transformer).err # NoErr
                   THEN Return(call, Register(tag, transformer).err)
                   ELSE [call EXCEPT !.pc = "reg_Lock"])
  /\ calls' = calls + 1
  /\ UNCHANGED <<tagName, transformers, structsCache, Values, seqVars, mutex, writes>>

\* c.mutex.RLock() in getStructCache and buildTagCache, t.Mutex.RLock() in
\* the Transform of truncate and precision.
RLock(t) ==
  LET g == goroutines[t]
  IN /\ g.pc \in {"sc_RLock", "tr_RLock", "par_RLock"}
     /\ CanRLock
     /\ mutex' = [mutex EXCEPT !.readers[t] = @ + 1]
     /\ SetGo(t, [g EXCEPT !.pc = CASE g.pc = "sc_RLock" -> "sc_read"
                                    [] g.pc = "tr_RLock" -> "tr_read"
                                    [] OTHER -> "par_read"])
     /\ UNCHANGED <<tagName, transformers, structsCache, Values, seqVars, calls, writes>>

\* RUnlock, and the branch taken after it: getStructCache builds on a miss,
\* buildTagCache goes on to the Cache call, Transform returns.
RUnlock(t) ==
  LET g == goroutines[t]
  IN /\ g.pc \in {"sc_RUnlock", "tr_RUnlock", "par_RUnlock"}
     /\ mutex' = [mutex EXCEPT !.readers[t] = @ - 1]
     /\ SetGo(t, CASE g.pc = "sc_RUnlock" ->
                        IF g.ok THEN [g EXCEPT !.pc = "field", !.di = 1]
                        ELSE [g EXCEPT !.pc = "build_field", !.fi = 0, !.newFields = <<>>]
                   [] g.pc = "tr_RUnlock" -> [g EXCEPT !.pc = "tag_resolved"]
                   [] OTHER ->
                        IF g.err # NoErr THEN Return(g, g.err)
                        ELSE [g EXCEPT !.pc = "chain", !.cur = Tail(@)])
     /\ UNCHANGED <<tagName, transformers, structsCache, Values, seqVars, calls, writes>>

\* Lock in IntParameterTransformer.Cache, getStructCache and Register.
Lock(t) ==
  LET g == goroutines[t]
  IN /\ g.pc \in {"val_Lock", "sc_Lock", "reg_Lock"}
     /\ CanLock
     /\ mutex' = [mutex EXCEPT !.writer = t]
     /\ SetGo(t, [g EXCEPT !.pc = CASE g.pc = "val_Lock" -> "val_write"
                                    [] g.pc = "sc_Lock" -> "sc_write"
                                    [] OTHER -> "reg_write"])
     /\ UNCHANGED <<tagName, transformers, structsCache, Values, seqVars, calls, writes>>

\* Unlock, and what follows it: buildTagCache returns the instruction,
\* getStructCache returns the descriptor to morphStruct, Register returns.
Unlock(t) ==
  LET g == goroutines[t]
  IN /\ g.pc \in {"val_Unlock", "sc_Unlock", "reg_Unlock"}
     /\ mutex' = [mutex EXCEPT !.writer = ""]
     /\ SetGo(t, CASE g.pc = "val_Unlock" -> [g EXCEPT !.pc = "tag_done"]
                   [] g.pc = "sc_Unlock" -> [g EXCEPT !.pc = "field", !.di = 1]
                   [] OTHER -> Return(g, NoErr))
     /\ UNCHANGED <<tagName, transformers, structsCache, Values, seqVars, calls, writes>>

\* getStructCache: strCache, ok := c.structsCache[key].
ReadStructsCache(t) ==
  LET g == goroutines[t]
  IN /\ g.pc = "sc_read"
     /\ SetGo(t, [g EXCEPT !.ok = Lookup(StructKey(g.shape)).ok,
                           !.strCache = Lookup(StructKey(g.shape)).strCache,
                           !.pc = "sc_RUnlock"])
     /\ UNCHANGED <<tagName, transformers, structsCache, Values, seqVars, calls, mutex, writes>>

\* buildStructCache: the head of the loop over the fields, and its end.
BuildField(t) ==
  LET g == goroutines[t]
      fields == Shapes[g.shape].fields
      tagsRaw == TagGet(fields[g.fi + 1], tagName)
  IN /\ g.pc = "build_field"
     /\ SetGo(t, IF g.fi >= Len(fields)
                 THEN [g EXCEPT !.strCache = [fieldsLength |-> Len(g.newFields),
                                              fields |-> g.newFields],
                                !.newFields = <<>>, !.fi = 0, !.pc = "sc_Lock"]
                 ELSE IF ~fields[g.fi + 1].exported \/ tagsRaw = TagIgnore
                 THEN [g EXCEPT !.fi = @ + 1]
                 ELSE IF Len(tagsRaw) = 0
                 THEN [g EXCEPT !.newFields = Append(@, [index |-> g.fi, tags |-> <<>>]),
                                !.fi = @ + 1]
                 ELSE [g EXCEPT !.allTags = FieldsFunc(tagsRaw, TagSeparator), !.ti = 1,
                                !.chain = <<>>, !.pc = "build_tag"])
     /\ UNCHANGED <<tagName, transformers, structsCache, Values, seqVars, calls, mutex, writes>>

\* buildTagsCache: the head of the loop over the tokens and, in
\* buildTagCache, the split of the token at the equals sign; at the end of
\* the tokens buildStructCache sets paramsKey on the head of the chain.
BuildTag(t) ==
  LET g == goroutines[t]
      tag == g.allTags[g.ti]
      equalSignIndex == IndexRune(tag, ParamsSign)
      tags == IF g.chain # <<>>
              THEN <<[g.chain[1] EXCEPT !.paramsKey = FieldKey(g)]>> \o Tail(g.chain)
              ELSE <<>>
  IN /\ g.pc = "build_tag"
     /\ SetGo(t, IF g.ti > Len(g.allTags)
                 THEN [g EXCEPT !.newFields = Append(@, [index |-> g.fi, tags |-> tags]),
                                !.fi = @ + 1, !.allTags = <<>>, !.ti = 0, !.chain = <<>>,
                                !.pc = "build_field"]
                 ELSE [g EXCEPT !.tag = IF equalSignIndex > 0
                                        THEN SubSeq(tag, 1, equalSignIndex) ELSE tag,
                                !.params = IF equalSignIndex > 0
                                           THEN SubSeq(tag, equalSignIndex + 2, Len(tag))
                                           ELSE <<>>,
                                !.pc = "tr_RLock"])
     /\ UNCHANGED <<tagName, transformers, structsCache, Values, seqVars, calls, mutex, writes>>

\* buildTagCache: tr, ok := c.transformers[tag].
ReadTransformers(t) ==
  LET g == goroutines[t]
  IN /\ g.pc = "tr_read"
     /\ SetGo(t, [g EXCEPT !.found = g.tag \in DOMAIN transformers,
                           !.tr = IF g.tag \in DOMAIN transformers THEN transformers[g.tag]
                                  ELSE NilTransformer,
                           !.pc = "tr_RUnlock"])
     /\ UNCHANGED <<tagName, transformers, structsCache, Values, seqVars, calls, mutex, writes>>

\* buildTagCache after the lookup: an unknown directive is refused;
\* tr.Cache is called, which parses the parameter before it locks.
CacheCall(t) ==
  LET g == goroutines[t]
  IN /\ g.pc = "tag_resolved"
     /\ SetGo(t, IF ~g.found /\ g.tag \notin navigationalTags
                 THEN Return(g, newErrorf("ErrUnknownTagFmt", g.tag, "", <<>>))
                 ELSE IF g.tr = NilTransformer THEN [g EXCEPT !.pc = "tag_done"]
                 ELSE IF Cache(g.tr, g.params, FieldKey(g), Values).err # NoErr
                 THEN Return(g, Cache(g.tr, g.params, FieldKey(g), Values).err)
                 ELSE IF g.tr \in IntParameterTransformers THEN [g EXCEPT !.pc = "val_Lock"]
                 ELSE [g EXCEPT !.pc = "tag_done"])
     /\ UNCHANGED <<tagName, transformers, structsCache, Values, seqVars, calls, mutex, writes>>

\* IntParameterTransformer.Cache: t.Values[*key] = &value.
WriteValues(t) ==
  LET g == goroutines[t]
  IN /\ g.pc = "val_write"
     /\ Values' = Cache(g.tr, g.params, FieldKey(g), Values).values
     /\ Written(g.tr, FieldKey(g))
     /\ SetGo(t, [g EXCEPT !.pc = "val_Unlock"])
     /\ UNCHANGED <<tagName, transformers, structsCache, seqVars, calls, mutex>>

\* buildTagsCache: the instruction buildTagCache returned is linked to the
\* chain.
TagDone(t) ==
  LET g == goroutines[t]
  IN /\ g.pc = "tag_done"
     /\ SetGo(t, [g EXCEPT !.chain = Append(@, TagChainCache(g.tag, g.params, g.tr, FieldKey(g))),
                           !.ti = @ + 1, !.tag = <<>>, !.params = <<>>, !.found = FALSE,
                           !.tr = NilTransformer, !.pc = "build_tag"])
     /\ UNCHANGED <<tagName, transformers, structsCache, Values, seqVars, calls, mutex, writes>>

\* The fault of a store that adds the fields built to those of the
\* descriptor already stored, where there is one.
WriteStructsCacheAppends(t) ==
  LET g == goroutines[t]
      key == StructKey(g.shape)
      stored == IF key \in DOMAIN structsCache
                THEN [fieldsLength |-> structsCache[key].fieldsLength + g.strCache.fieldsLength,
                      fields |-> structsCache[key].fields \o g.strCache.fields]
                ELSE g.strCache
  IN /\ g.pc = "sc_write"
     /\ structsCache' = (key :> stored) @@ structsCache
     /\ Written("structsCache", key)
     /\ SetGo(t, [g EXCEPT !.pc = "sc_Unlock"])
     /\ UNCHANGED <<tagName, transformers, Values, seqVars, calls, mutex>>

\* getStructCache: c.structsCache[key] = strCache.
WriteStructsCache(t) ==
  LET g == goroutines[t]
  IN /\ g.pc = "sc_write"
     /\ structsCache' = (StructKey(g.shape) :> g.strCache) @@ structsCache
     /\ Written("structsCache", StructKey(g.shape))
     /\ SetGo(t, [g EXCEPT !.pc = "sc_Unlock"])
     /\ UNCHANGED <<tagName, transformers, Values, seqVars, calls, mutex>>

\* Register: c.cache.transformers[tag] = transformer.
WriteTransformers(t) ==
  LET g == goroutines[t]
  IN /\ g.pc = "reg_write"
     /\ transformers' = Register(g.tag, g.tr).transformers
     /\ Written("transformers", g.tag)
     /\ SetGo(t, [g EXCEPT !.pc = "reg_Unlock"])
     /\ UNCHANGED <<tagName, structsCache, Values, seqVars, calls, mutex>>

\* morphStruct: the head of the loop over the descriptor, and its end.
MorphStructLoop(t) ==
  LET g == goroutines[t]
  IN /\ g.pc = "field"
     /\ SetGo(t, IF g.di > g.strCache.fieldsLength THEN Return(g, NoErr)
                 ELSE [g EXCEPT !.cur = g.strCache.fields[g.di].tags, !.pc = "chain"])
     /\ UNCHANGED <<tagName, transformers, structsCache, Values, seqVars, calls, mutex, writes>>

\* Whether the Transform of tr, given v, goes on to read t.Values.
ReadsValues(tr, v) ==
  \/ tr = "truncateTransformer" /\ v.k = "string"
  \/ tr = "precisionTransformer" /\ IsFloat(v)

\* morphField: the head of the loop over the chain and the call of
\* Transform, up to its RLock if it takes one.
MorphFieldLoop(t) ==
  LET g == goroutines[t]
      i == g.strCache.fields[g.di].index + 1
      currentTag == g.cur[1]
      r == Transform(currentTag.transformer, g.fields[i], currentTag.paramsKey, Values)
  IN /\ g.pc = "chain"
     /\ SetGo(t, IF g.cur = <<>> THEN [g EXCEPT !.di = @ + 1, !.pc = "field"]
                 ELSE IF currentTag.tag = TagDive
                 THEN Return(g, newErrorf("ErrInvalidDiveFmt", <<>>, g.fields[i].k, <<>>))
                 ELSE IF currentTag.transformer = NilTransformer
                 THEN [g EXCEPT !.cur = Tail(@)]
                 ELSE IF ReadsValues(currentTag.transformer, g.fields[i])
                 THEN [g EXCEPT !.pc = "par_RLock"]
                 ELSE IF r.err # NoErr THEN Return([g EXCEPT !.fields[i] = r.v], r.err)
                 ELSE [g EXCEPT !.fields[i] = r.v, !.cur = Tail(@)])
     /\ UNCHANGED <<tagName, transformers, structsCache, Values, seqVars, calls, mutex, writes>>

\* The Transform of truncate and precision: limit, ok := t.Values[*paramsKey].
\* A nil paramsKey panics here, between RLock and RUnlock.
ReadValues(t) ==
  LET g == goroutines[t]
      i == g.strCache.fields[g.di].index + 1
      r == Transform(g.cur[1].transformer, g.fields[i], g.cur[1].paramsKey, Values)
  IN /\ g.pc = "par_read"
     /\ SetGo(t, IF IsPanic(r.err) THEN Return(g, r.err)
                 ELSE [g EXCEPT !.fields[i] = r.v, !.err = r.err, !.pc = "par_RUnlock"])
     /\ UNCHANGED <<tagName, transformers, structsCache, Values, seqVars, calls, mutex, writes>>

\* What the goroutines call: records with a parameterised directive first
\* in its chain, with one after another transformer, with a parameter that
\* does not parse after one that does, with a directive not yet registered;
\* Register of that directive.
ConcInputs == {InHead, InDoc, InBadP, InBad}
ConcNames == {Baba}
ConcTransformers == {"funcTransformer:append"}

NextConc ==
  \E t \in Goroutines :
    \/ GoStruct(t, ConcInputs)
    \/ GoRegister(t, ConcNames, ConcTransformers)
    \/ RLock(t)
    \/ RUnlock(t)
    \/ Lock(t)
    \/ Unlock(t)
    \/ ReadStructsCache(t)
    \/ BuildField(t)
    \/ BuildTag(t)
    \/ ReadTransformers(t)
    \/ CacheCall(t)
    \/ WriteValues(t)
    \/ TagDone(t)
    \/ WriteStructsCache(t)
    \/ WriteTransformers(t)
    \/ MorphStructLoop(t)
    \/ MorphFieldLoop(t)
    \/ ReadValues(t)

SpecConc == Init /\ [][NextConc]_vars

\* How often the descriptor of a shape key was stored.
Stores(key) ==
  IF <<"structsCache", key>> \in DOMAIN writes THEN writes[<<"structsCache", key>>] ELSE 0

ShapeKeys == {StructKey(shape) : shape \in DOMAIN Shapes}

\* C12, as stated: no descriptor is stored a second time, not by
\* concurrent first calls either.
C12_BuiltExactlyOnce == \A key \in ShapeKeys : Stores(key) <= 1

C12_Step ==
  /\ \A t \in Goroutines :
       LET g == goroutines[t]
           key == StructKey(g.shape)
       IN /\ (g.pc = "sc_read" /\ goroutines'[t] # g) =>
               /\ goroutines'[t].ok = (key \in DOMAIN structsCache)
               /\ key \in DOMAIN structsCache => goroutines'[t].strCache = structsCache[key]
          /\ (g.pc = "sc_RUnlock" /\ goroutines'[t] # g) =>
               goroutines'[t].pc = IF g.ok THEN "field" ELSE "build_field"
          /\ (g.pc = "sc_write" /\ goroutines'[t] # g) =>
               /\ ~g.ok
               /\ structsCache'[key] = g.strCache
               /\ \A other \in (DOMAIN structsCache) \ {key} :
                    structsCache'[other] = structsCache[other]
  /\ structsCache' # structsCache => \E t \in Goroutines : goroutines[t].pc = "sc_write"
  /\ \A key \in ShapeKeys : Stores(key)' <= Cardinality(Goroutines)

\* C12, amended: a call builds and stores a descriptor only when its own
\* lookup missed; a call whose lookup finds the descriptor uses it and
\* neither rebuilds nor replaces it, so calls that do not overlap build a
\* shape once.  Callers whose first calls on a shape overlap may each miss,
\* build and store, the later store replacing the earlier: a shape is
\* stored at most once per concurrent caller, however many calls are made.
C12_BuiltOncePerConcurrentMiss == [][C12_Step]_vars

\* Both goroutines have built and stored the same shape, and a third call on
\* it found the descriptor.
C12_Witness ==
  \E t \in Goroutines :
    /\ goroutines[t].pc = "field"
    /\ goroutines[t].ok
    /\ Stores(StructKey(goroutines[t].shape)) = Cardinality(Goroutines)
    /\ calls = 3

\* How often the parameter of a key was stored in the Values of tr.
Populations(tr, key) == IF <<tr, key>> \in DOMAIN writes THEN writes[<<tr, key>>] ELSE 0

ParamKeys ==
  {getParamsKey(Shapes[shape].str, i) : shape \in DOMAIN Shapes, i \in 0..5}

\* A Transform step of a goroutine that reads the parameter of a key.
ReadsKey(t) ==
  /\ goroutines[t].pc = "par_read"
  /\ goroutines'[t] # goroutines[t]
  /\ goroutines[t].cur[1].paramsKey # NilKey

C13_OnceStep ==
  \A t \in Goroutines :
    ReadsKey(t) =>
      goroutines[t].cur[1].paramsKey \in DOMAIN Values[goroutines[t].cur[1].transformer]

C13_Step ==
  /\ \A t \in Goroutines :
       LET g == goroutines[t]
           key == FieldKey(g)
       IN /\ ReadsKey(t) =>
               /\ g.cur[1].paramsKey \in DOMAIN Values[g.cur[1].transformer]
               /\ Populations(g.cur[1].transformer, g.cur[1].paramsKey) >= 1
               /\ goroutines'[t].err.fmt # "ErrMissingParametersFmt"
          /\ (g.pc = "val_write" /\ goroutines'[t] # g) =>
               /\ ~g.ok
               /\ key \in DOMAIN Values'[g.tr]
               /\ Values'[g.tr][key] = Atoi(g.params).n
               /\ key \in DOMAIN Values[g.tr] => Values'[g.tr][key] = Values[g.tr][key]
               /\ \A tr \in IntParameterTransformers : \A other \in DOMAIN Values[tr] :
                    (tr # g.tr \/ other # key) =>
                      other \in DOMAIN Values'[tr] /\ Values'[tr][other] = Values[tr][other]
  /\ Values' # Values => \E t \in Goroutines : goroutines[t].pc = "val_write"

InNeg == Ptr(StructV("Neg", <<S4("1", "2", "3", "4")>>))
InNegP == Ptr(StructV("NegP", <<Flt(1567)>>))
InNoP == Ptr(StructV("NoP", <<Flt(1160)>>))
InEmptyP == Ptr(StructV("EmptyP", <<S2("1", "2")>>))

ParamInputs == {InBadP, InNeg, InNegP, InNoP, InEmptyP, InHead}

NextParams == StructCall(ParamInputs)

SpecParams == Init /\ [][NextParams]_vars

\* The field whose annotation holds the bad parameter, and its transformer.
BadParamField(x) == IF x = InBadP THEN 1 ELSE 0
BadParamTransformer(x) ==
  IF x \in {InNegP, InNoP} THEN "precisionTransformer" ELSE "truncateTransformer"

\* C14: when the parameter of truncate or precision is missing, not a number
\* or negative, the Cache step fails with InvalidParameters: the compilation
\* of the shape fails, no parameter is stored under the field's key and no
\* descriptor is cached.
C14_BadParameterFailsAtCache ==
  (lastOp = "Struct" /\ lastArg \in {InBadP, InNeg, InNegP, InNoP, InEmptyP}) =>
    /\ lastErr.fmt = "ErrInvalidParameters"
    /\ lastFailed = lastArg.elem.shape
    /\ getParamsKey(Shapes[lastArg.elem.shape].str, BadParamField(lastArg))
         \notin DOMAIN Values[BadParamTransformer(lastArg)]
    /\ StructKey(lastArg.elem.shape) \notin DOMAIN structsCache
    /\ \A i \in 1..Len(lastTrace) : ~IsTransform(lastTrace[i])

\* The part of C14 about a parameter that is missing, empty or not a number.
C14_UnparsedParameterFailsAtCache ==
  (lastOp = "Struct" /\ lastArg \in {InBadP, InNoP, InEmptyP}) =>
    /\ lastErr.fmt = "ErrInvalidParameters"
    /\ lastFailed = lastArg.elem.shape
    /\ getParamsKey(Shapes[lastArg.elem.shape].str, BadParamField(lastArg))
         \notin DOMAIN Values[BadParamTransformer(lastArg)]
    /\ StructKey(lastArg.elem.shape) \notin DOMAIN structsCache
    /\ \A i \in 1..Len(lastTrace) : ~IsTransform(lastTrace[i])

\* ------------------------------------------- eligibility, keys, records
\* Records with unexported and ignored fields, with annotations under two
\* keys, with nested records in fields, sequences, maps and interfaces, and
\* with scalars held in interfaces; Struct on them, and WithTag.
EligRecord(x) == StructV("EligInner", <<S3(" ", x, " "), S3(" ", x, " ")>>)

InElig ==
  Ptr(StructV("Elig",
      <<S3(" ", "a", " "), S3(" ", "b", " "), S3(" ", "c", " "), EligRecord("x"),
        EligRecord("y"), S3(" ", "d", " "), EligRecord("q")>>))

InTwo == Ptr(StructV("Two", <<S4(" ", "A", "b", " "), S2("C", "d"), S2("e", " ")>>))

RecRecord(x) == StructV("RecInner", <<S3(" ", x, " ")>>)

InRec ==
  Ptr(StructV("Rec",
      <<RecRecord("a"), Ptr(RecRecord("b")), Slice(<<RecRecord("c"), RecRecord("d")>>),
        MapV(S1("k") :> RecRecord("e")), Iface(Ptr(RecRecord("f")))>>))

InRecIface ==
  Ptr(StructV("Rec",
      <<RecRecord("a"), Ptr(RecRecord("b")), Slice(<<>>), MapV(EmptyMap),
        Iface(RecRecord("f"))>>))

InWB ==
  Ptr(StructV("WB",
      <<Iface(S3(" ", "a", " ")), Slice(<<Iface(S3(" ", "b", " "))>>),
        MapV(S1("k") :> Iface(S3(" ", "c", " "))), Ptr(S3(" ", "p", " "))>>))

FieldInputs == {InElig, InTwo, InRec, InRecIface, InWB}

NextFields ==
  \/ StructCall(FieldInputs)
  \/ WithTagCall(WithTagNames)

SpecFields == Init /\ [][NextFields]_vars

\* The shapes whose descriptor the last Struct call built and stored.
BuiltShapes ==
  {lastTrace[i].shape : i \in {j \in 1..Len(lastTrace) : lastTrace[j].op = "Build"}}
    \ {lastFailed}

\* The indexes of the fields of a shape that are exported and whose
\* annotation under the morpher's key is not the ignore marker alone.
Eligible(shape) ==
  {i \in 0..(Len(Shapes[shape].fields) - 1) :
     /\ Shapes[shape].fields[i + 1].exported
     /\ TagGet(Shapes[shape].fields[i + 1], tagName) # TagIgnore}

\* The records in a value, with the storage they are in left out of account.
RECURSIVE RecordsIn(_)
RecordsIn(v) ==
  CASE v.k \in {"ptr", "interface"} -> IF v.nil THEN {} ELSE RecordsIn(v.elem)
    [] v.k \in {"slice", "array"} -> UNION {RecordsIn(v.items[i]) : i \in 1..Len(v.items)}
    [] v.k = "map" -> UNION {RecordsIn(v.m[key]) : key \in DOMAIN v.m}
    [] v.k = "struct" -> {v} \cup UNION {RecordsIn(v.fields[i]) : i \in 1..Len(v.fields)}
    [] OTHER -> {}

\* C15: a descriptor lists, in declaration order, exactly the exported
\* fields whose annotation is not the ignore marker alone, and a Struct call
\* leaves every other field of the record as it was, whatever is nested in
\* it: none of them is visited, and no record under an ignored or unexported
\* field has its descriptor looked up.
C15_OnlyEligibleFields ==
  (lastOp = "Struct" /\ IsRecordPtr(lastArg)) =>
    /\ \A shape \in BuiltShapes :
         LET strCache == structsCache[StructKey(shape)]
         IN /\ {strCache.fields[n].index : n \in 1..strCache.fieldsLength} = Eligible(shape)
            /\ strCache.fieldsLength = Cardinality(Eligible(shape))
            /\ \A n, m \in 1..strCache.fieldsLength :
                 n < m => strCache.fields[n].index < strCache.fields[m].index
    /\ StructKey(lastArg.elem.shape) \in DOMAIN structsCache =>
         LET strCache == structsCache[StructKey(lastArg.elem.shape)]
             listed == {strCache.fields[n].index : n \in 1..strCache.fieldsLength}
         IN \A j \in 0..(Len(lastArg.elem.fields) - 1) :
              j \notin listed =>
                /\ lastOut.elem.fields[j + 1] = lastArg.elem.fields[j + 1]
                /\ \A i \in 1..Len(lastTrace) :
                     ~(lastTrace[i].op = "Field" /\ lastTrace[i].shape = lastArg.elem.shape
                         /\ lastTrace[i].index = j)
    /\ (lastArg = InElig /\ BuiltInThisCall /\ tagName = DefaultTag) =>
         /\ lastErr = NoErr
         /\ lastOut.elem.fields =
              <<S1("a"), S3(" ", "b", " "), S3(" ", "c", " "), EligRecord("x"),
                EligRecord("y"), S1("d"),
                StructV("EligInner", <<S1("q"), S3(" ", "q", " ")>>)>>
         /\ Len(SelectSeq(lastTrace, LAMBDA e : e.op = "Field" /\ e.shape = "EligInner")) = 1

\* The record with unexported, ignored and eligible fields has been compiled
\* and gone through: the eligible ones are trimmed.
C15_Witness ==
  /\ lastOp = "Struct"
  /\ lastArg = InElig
  /\ tagName = DefaultTag
  /\ lastErr = NoErr
  /\ "Elig" \in BuiltShapes
  /\ lastOut.elem.fields[1] = S1("a")
  /\ lastOut.elem.fields[5] = lastArg.elem.fields[5]

WithTagStep == lastOp' = "WithTag" /\ calls' = calls + 1

\* The directive name of a token: what stands before its equals sign.
TokenName(token) ==
  IF IndexRune(token, ParamsSign) > 0 THEN SubSeq(token, 1, IndexRune(token, ParamsSign))
  ELSE token

C16_Step ==
  /\ WithTagStep =>
       /\ IF TrimSpace(lastName') = <<>>
          THEN lastErr' = PanicInvalidTagName /\ tagName' = tagName
          ELSE lastErr' = NoErr /\ tagName' = TrimSpace(lastName')
       /\ UNCHANGED <<transformers, structsCache, Values>>
  /\ StructStep =>
       /\ tagName' = tagName
       /\ \A shape \in BuiltShapes' :
            LET strCache == structsCache'[StructKey(shape)]
            IN \A n \in 1..strCache.fieldsLength :
                 LET field == Shapes[shape].fields[strCache.fields[n].index + 1]
                     tokens == FieldsFunc(IF tagName \in DOMAIN field.tags
                                          THEN field.tags[tagName] ELSE <<>>, TagSeparator)
                 IN /\ Len(strCache.fields[n].tags) <= Len(tokens)
                    /\ (tokens = <<>>) = (strCache.fields[n].tags = <<>>)
                    /\ tokens # <<>> => strCache.fields[n].tags[1].tag = TokenName(tokens[1])
       /\ (lastArg' = InTwo /\ "Two" \in BuiltShapes') =>
            /\ lastErr' = NoErr
            /\ lastOut'.elem.fields =
                 IF tagName = ChangeTag THEN <<S2("A", "b"), S2("C", "d"), S2("e", " ")>>
                 ELSE <<S4(" ", "A", "B", " "), S2("c", "d"), S2("e", " ")>>

\* C16: WithTag with an empty or blank tag panics at once and leaves the
\* annotation key as it was; with any other tag it sets the trimmed tag as
\* the key, and every shape compiled from then on takes the annotation of
\* each field from that key alone: a field annotated under the default key
\* only has no chain, one annotated under both gets the chain of the new key.
C16_WithTagSetsTheKey == [][C16_Step]_vars

\* After WithTag("ch ") the record annotated under both keys was compiled
\* and processed by the chains under ch.
C16_Witness ==
  /\ lastOp = "Struct"
  /\ lastArg = InTwo
  /\ tagName = ChangeTag
  /\ "Two" \in BuiltShapes
  /\ lastOut.elem.fields[1] = S2("A", "b")
  /\ lastOut.elem.fields[2] = lastArg.elem.fields[2]

\* The places where a goroutine reads, writes, waits for the lock, and
\* calls into a transformer.
ReadPcs == {"sc_read", "tr_read", "par_read"}
WritePcs == {"sc_write", "val_write", "reg_write"}
LockPcs == {"val_Lock", "sc_Lock", "reg_Lock"}
RLockPcs == {"sc_RLock", "tr_RLock", "par_RLock"}
CallPcs == {"tag_resolved", "chain"}

HoldsLock(t) == mutex.readers[t] > 0 \/ mutex.writer = t

\* The lock discipline of one step of goroutine t.
Disciplined(t) ==
  LET g == goroutines[t]
  IN /\ g.pc \in ReadPcs => mutex.readers[t] > 0 /\ mutex.writer = ""
     /\ g.pc \in WritePcs =>
          mutex.writer = t /\ \A u \in Goroutines : mutex.readers[u] = 0
     /\ g.pc \in CallPcs => ~HoldsLock(t)
     /\ g.pc \in LockPcs \cup RLockPcs => ~HoldsLock(t)
     /\ goroutines'[t].pc = "idle" => mutex'.readers[t] = 0 /\ mutex'.writer # t

TablesWrittenUnderLock ==
  /\ structsCache' # structsCache =>
       \E t \in Goroutines : goroutines[t].pc = "sc_write" /\ mutex.writer = t
  /\ Values' # Values =>
       \E t \in Goroutines : goroutines[t].pc = "val_write" /\ mutex.writer = t
  /\ transformers' # transformers =>
       \E t \in Goroutines : goroutines[t].pc = "reg_write" /\ mutex.writer = t

C17_Step ==
  /\ \A t \in Goroutines : goroutines'[t] # goroutines[t] => Disciplined(t)
  /\ TablesWrittenUnderLock

\* C17: in every interleaving of concurrent Struct and Register calls the
\* descriptor table, the parameter store and the registry are read only
\* with the read lock held and written only with the write lock held, no
\* Cache or Transform call is made and no lock is asked for by a goroutine
\* that holds the lock, and a goroutine whose call has ended holds no lock.
C17_LockDiscipline == [][C17_Step]_vars

\* No goroutine holds a read lock it took in a call that has ended.
NoLockLeaked ==
  \A t \in Goroutines :
    mutex.readers[t] =
      IF goroutines[t].pc \in ReadPcs \cup {"sc_RUnlock", "tr_RUnlock", "par_RUnlock"}
      THEN 1 ELSE 0

\* The step is the panic of a Transform on its nil key.
PanicsOnNilKey(t) ==
  goroutines[t].pc = "par_read" /\ goroutines[t].cur[1].paramsKey = NilKey

C17_UntilPanicStep ==
  (NoLockLeaked /\ \A t \in Goroutines : ~(PanicsOnNilKey(t) /\ goroutines'[t] # goroutines[t]))
    => C17_Step

\* The part of C17 that holds: the discipline is kept by every step up to
\* the first Transform that panics between RLock and RUnlock.
C17_LockDisciplineUntilPanic == [][C17_UntilPanicStep]_vars

\* ------------------------------------------------- the chain compiler alone
\* buildTagsCache given an annotation of up to MaxTokens tokens, each one of
\* keys, exit, trim, dive, on a fresh morpher.
Tokens == {TagKeys, TagExit, TagTrim, TagDive}

TokenSeqs == UNION {[1..n -> Tokens] : n \in 0..MaxTokens}

RECURSIVE JoinAll(_)
JoinAll(tokens) ==
  IF tokens = <<>> THEN <<>>
  ELSE IF Len(tokens) = 1 THEN tokens[1]
  ELSE Join(tokens[1], JoinAll(Tail(tokens)))

CompileKey == getParamsKey(<<"m", ".", "T">>, 0)

\* One call of buildTagsCache; lastName holds the annotation, lastOut the
\* chain returned.
CompileCall(seqs) ==
  /\ \E tokens \in seqs :
       \E r \in {buildTagsCache(JoinAll(tokens), CompileKey,
                                [structsCache |-> structsCache, values |-> Values,
                                 trace |-> <<>>, failed |-> "", order |-> <<>>])} :
          /\ lastName' = JoinAll(tokens)
          /\ lastOut' = [k |-> "chain", chain |-> r.chain]
          /\ lastErr' = r.err
          /\ lastTrace' = r.st.trace
          /\ Values' = r.st.values
  /\ lastOp' = "buildTagsCache"
  /\ lastArg' = Invalid
  /\ lastFailed' = ""
  /\ UNCHANGED <<tagName, transformers, structsCache, lastFail, calls, concVars>>

NextKeys == CompileCall(TokenSeqs)

SpecKeys == Init /\ [][NextKeys]_vars

\* The index of the first token equal to tag at or after index from, or
\* Len(tokens) + 1.
RECURSIVE FirstAt(_, _, _)
FirstAt(tokens, tag, from) ==
  IF from > Len(tokens) THEN Len(tokens) + 1
  ELSE IF tokens[from] = tag THEN from
  ELSE FirstAt(tokens, tag, from + 1)

\* The chain the tokens stand for: up to the first keys that has a token
\* after it every token is an instruction of its own; that keys takes the
\* tokens up to the next exit (or the end) as its key sub-chain; the same
\* again for the tokens after that exit.
RECURSIVE Linked(_)
Linked(tokens) ==
  LET k == FirstAt(tokens, TagKeys, 1)
      e == FirstAt(tokens, TagExit, k + 1)
      plain(from, to) == [i \in 1..(to - from + 1) |-> [tag |-> tokens[from + i - 1], keys |-> <<>>]]
  IN IF k >= Len(tokens) THEN plain(1, Len(tokens))
     ELSE plain(1, k - 1)
            \o <<[tag |-> TagKeys, keys |-> [i \in 1..(e - k - 1) |-> tokens[k + i]]]>>
            \o Linked(SubSeq(tokens, e + 1, Len(tokens)))

\* The directive names of a compiled chain and of its key sub-chains.
ChainNames(chain) ==
  [i \in 1..Len(chain) |->
     [tag |-> chain[i].tag,
      keys |-> [j \in 1..Len(chain[i].keysChain) |-> chain[i].keysChain[j].tag]]]

\* C18: in a compiled chain a keys followed by further tokens carries, as
\* its key sub-chain, the tokens up to the next exit or the end; the outer
\* chain goes on with the token after that exit, and the exit is in neither
\* chain.  A keys that is last, or that exit follows at once, has no key
\* sub-chain.  The instructions are in the order of the tokens, and the
\* instructions of a key sub-chain (a keys among them) have no sub-chain of
\* their own.
C18_KeysSubChain ==
  lastOp = "buildTagsCache" =>
    LET tokens == FieldsFunc(lastName, TagSeparator)
        chain == lastOut.chain
    IN /\ lastErr = NoErr
       /\ ChainNames(chain) = Linked(tokens)
       /\ \A i \in 1..Len(chain) : \A j \in 1..Len(chain[i].keysChain) :
            chain[i].keysChain[j].keysChain = <<>>
       /\ \A i \in 1..Len(chain) :
            chain[i].keysChain # <<>> =>
              /\ chain[i].tag = TagKeys
              /\ \A j \in 1..Len(chain[i].keysChain) : chain[i].keysChain[j].tag # TagExit
       /\ (tokens # <<>> /\ tokens[Len(tokens)] = TagKeys) =>
            LET last == chain[Len(chain)]
            IN IF last.keysChain = <<>> THEN last.tag = TagKeys
               ELSE last.keysChain[Len(last.keysChain)].tag = TagKeys

\* keys,trim,exit,dive is compiled: keys carries trim, dive follows keys, and
\* the exit is gone.
C18_Witness ==
  /\ lastOp = "buildTagsCache"
  /\ lastName = Join(TagKeys, Join(TagTrim, Join(TagExit, TagDive)))
  /\ ChainNames(lastOut.chain) =
       <<[tag |-> TagKeys, keys |-> <<TagTrim>>], [tag |-> TagDive, keys |-> <<>>]>>

\* -------------------------------------------------------- nested records
\* The visits of the fields of the nested records, and the transformer runs,
\* of the last Struct call.
InnerVisits == SelectSeq(lastTrace, LAMBDA e : e.op = "Field" /\ e.shape = "RecInner")

TransformRuns == SelectSeq(lastTrace, IsTransform)

\* The nested records of a value of shape Rec.
InnerRecords(v) == {r \in RecordsIn(v) : r.shape = "RecInner"}

Trimmed(r) == r.fields[1].s = TrimSpace(r.fields[1].s)

\* A first Struct call, under the default key, on a record with records in a
\* field, behind a pointer, in a slice, in a map and in an interface.
NestedCase ==
  /\ lastOp = "Struct"
  /\ lastArg \in {InRec, InRecIface}
  /\ tagName = DefaultTag
  /\ BuiltInThisCall

\* C19, as stated: a record in a field, behind a pointer, in a sequence, in
\* a map or in an interface is gone through with its own descriptor, whether
\* the field has no annotation or a chain; the field's chain is not run on
\* the record; and the caller's data then holds every nested record with its
\* annotated field transformed.
C19_NestedRecordsTransformed ==
  NestedCase =>
    /\ lastErr = NoErr
    /\ Len(InnerVisits) = Cardinality(InnerRecords(lastArg))
    /\ Len(TransformRuns) = Len(InnerVisits)
    /\ StructKey("RecInner") \in DOMAIN structsCache
    /\ \A r \in InnerRecords(lastOut) : Trimmed(r)

\* The part of C19 that holds: every nested record is gone through with its
\* own descriptor and the field's chain is not run on it; the caller's data
\* holds the transformed record unless the record is held by value in an
\* interface, which is left as it was.
C19_NestedRecordsVisited ==
  NestedCase =>
    /\ lastErr = NoErr
    /\ Len(InnerVisits) = Cardinality(InnerRecords(lastArg))
    /\ Len(TransformRuns) = Len(InnerVisits)
    /\ StructKey("RecInner") \in DOMAIN structsCache
    /\ \A i \in 1..4 : \A r \in InnerRecords(lastOut.elem.fields[i]) : Trimmed(r)
    /\ lastArg = InRec => lastOut.elem.fields[5] = Iface(Ptr(StructV("RecInner", <<S1("f")>>)))
    /\ lastArg = InRecIface => lastOut.elem.fields[5] = lastArg.elem.fields[5]

\* The record with a record held by value in an interface has been gone
\* through without error.
C19_Reached ==
  NestedCase /\ lastArg = InRecIface /\ lastErr = NoErr

\* ------------------------------------------------------------- write-back
\* A first Struct call, under the default key, on a record with a string
\* held in an interface in a field, in a slice and in a map, and a string
\* behind a pointer, each with a trim chain.
WriteBackCase ==
  /\ lastOp = "Struct"
  /\ lastArg = InWB
  /\ tagName = DefaultTag
  /\ BuiltInThisCall

\* C20, as stated: when a chain completes without error and its transformers
\* ran on a working copy that is not the original storage (a string held in
\* an interface in a field, a slice or a map), the working copy is copied
\* back, and the caller's data holds the transformed value.
C20_WriteBack ==
  WriteBackCase =>
    /\ lastErr = NoErr
    /\ Len(TransformRuns) = 4
    /\ lastOut.elem.fields =
         <<Iface(S1("a")), Slice(<<Iface(S1("b"))>>), MapV(S1("k") :> Iface(S1("c"))),
           Ptr(S1("p"))>>

\* What the code does: the chains run and return no error, the string
\* behind the pointer is transformed where it is, and the strings held in
\* interfaces are left as they were.
C20_WorkingCopyDropped ==
  WriteBackCase =>
    /\ lastErr = NoErr
    /\ Len(TransformRuns) = 4
    /\ \A i \in 1..3 : lastOut.elem.fields[i] = lastArg.elem.fields[i]
    /\ lastOut.elem.fields[4] = Ptr(S1("p"))

\* The chains of the record with interface-held strings have run.
C20_Reached ==
  WriteBackCase /\ lastErr = NoErr /\ Len(TransformRuns) = 4

\* ---------------------------------------------------------------- map walks
\* Struct on records with maps: walked by value only (no keys, keys alone,
\* keys followed at once by exit), and walked by key and value where one
\* value, or every key, is refused by its transformer.
InMD ==
  Ptr(StructV("MD",
      <<MapV((S3(" ", "a", " ") :> S3(" ", "x", " ")) @@ (S2("b", " ") :> S2("y", " "))),
        MapV(S3(" ", "k", " ") :> S3(" ", "v", " ")),
        MapV(S3(" ", "c", " ") :> S3(" ", "z", " "))>>))

InMV ==
  Ptr(StructV("MV",
      <<MapV((S3(" ", "a", " ") :> Iface(Ptr(S3(" ", "x", " "))))
             @@ (S2("b", " ") :> Iface(IntV(5)))
             @@ (S2(" ", "c") :> Iface(Ptr(S2("z", " ")))))>>))

InMK ==
  Ptr(StructV("MK",
      <<MapV((S3(" ", "a", " ") :> S3(" ", "x", " ")) @@ (S2("b", " ") :> S2("y", " ")))>>))

MapInputs == {InMD, InMV, InMK, InMaps, InMapsCollide, InKeyT}

NextMaps == StructCall(MapInputs)

SpecMaps == Init /\ [][NextMaps]_vars

\* The map in field i (one-based) of the argument and of the result of the
\* last Struct call.
MapIn(i) == lastArg.elem.fields[i].m

MapOut(i) == lastOut.elem.fields[i].m

TrimmedStr(v) == Str(TrimSpace(v.s))

Walked(key, value) ==
  /\ TrimSpace(key.s) \in {k.s : k \in DOMAIN MapOut(1)}
  /\ MapOut(1)[Str(TrimSpace(key.s))] = value
  /\ key \notin DOMAIN MapOut(1)

\* An entry the walk did not come to: under its old key, as it was.
NotWalked(key) ==
  /\ key \in DOMAIN MapOut(1)
  /\ MapOut(1)[key] = MapIn(1)[key]
  /\ Str(TrimSpace(key.s)) \notin DOMAIN MapOut(1)

Absent(key) ==
  /\ key \notin DOMAIN MapOut(1)
  /\ Str(TrimSpace(key.s)) \notin DOMAIN MapOut(1)

\* C27: a map walked by key and value, where the value of one entry (an
\* integer under a trim) or the key of every entry (a string under ceil) is
\* refused: Struct returns the error; the failing entry is under neither
\* its old nor its new key; the entries walked before it are under their
\* transformed keys with their transformed values, the others are as they
\* were; the map has one entry fewer.
C27_FailingEntryRemoved ==
  /\ (lastOp = "Struct" /\ lastArg = InMV) =>
       /\ lastErr = UnexpectedValue(TagTrim, IntV(5))
       /\ Absent(S2("b", " "))
       /\ Walked(S3(" ", "a", " "), Iface(Ptr(S1("x")))) \/ NotWalked(S3(" ", "a", " "))
       /\ Walked(S2(" ", "c"), Iface(Ptr(S1("z")))) \/ NotWalked(S2(" ", "c"))
       /\ Cardinality(DOMAIN MapOut(1)) = Cardinality(DOMAIN MapIn(1)) - 1
       /\ Len(TransformRuns) = 2 * Cardinality((DOMAIN MapOut(1)) \ (DOMAIN MapIn(1))) + 2
  /\ (lastOp = "Struct" /\ lastArg = InMK) =>
       /\ lastErr = UnexpectedValue(TagCeil, EmptyStr)
       /\ Cardinality(DOMAIN MapOut(1)) = 1
       /\ \E key \in DOMAIN MapIn(1) :
            /\ Absent(key)
            /\ \A other \in (DOMAIN MapIn(1)) \ {key} : NotWalked(other)
       /\ Len(TransformRuns) = 2

\* The walk failed at the integer after one entry was walked and before
\* another was.
C27_Witness ==
  /\ lastOp = "Struct"
  /\ lastArg = InMV
  /\ lastErr = UnexpectedValue(TagTrim, IntV(5))
  /\ Walked(S3(" ", "a", " "), Iface(Ptr(S1("x"))))
  /\ NotWalked(S2(" ", "c"))
  /\ Absent(S2("b", " "))

\* ------------------------------------------------ the tolerated double build
\* The registry New() made: no Register call has written to it.
RegistryUnchanged == \A key \in DOMAIN writes : key[1] # "transformers"

\* Struct on x by a single caller of a fresh morpher: one build, no
\* concurrency.
Sequential(x) ==
  Struct(x, [structsCache |-> <<>>,
             values |-> [truncateTransformer |-> <<>>, precisionTransformer |-> <<>>],
             trace |-> <<>>, failed |-> "", order |-> <<>>])

\* A Struct call of goroutine t has returned.
Returned(t) == goroutines[t].pc = "idle" /\ goroutines[t].op = "Struct"

\* A store of a descriptor or of a parameter over one already stored, with
\* the registry unchanged, stores an equal one.
C22_Step ==
  RegistryUnchanged =>
    /\ \A key \in DOMAIN structsCache :
         (key \in DOMAIN structsCache') => structsCache'[key] = structsCache[key]
    /\ \A tr \in DOMAIN Values : \A key \in DOMAIN Values[tr] :
         Values'[tr][key] = Values[tr][key]

OverrideNames == {TagTrim, TagUpper}
OverrideTransformers == {"funcTransformer:append"}
OverrideInputs == {InHead, InTwo}

NextChains ==
  \/ StructCall(OverrideInputs)
  \/ RegisterCall(OverrideNames, OverrideTransformers)
  \/ WithTagCall(WithTagNames)

SpecChains == Init /\ [][NextChains]_vars

NextOverride ==
  \E t \in Goroutines :
    \/ GoStruct(t, {InHead})
    \/ GoRegister(t, {TagTrim}, OverrideTransformers)
    \/ RLock(t)
    \/ RUnlock(t)
    \/ Lock(t)
    \/ Unlock(t)
    \/ ReadStructsCache(t)
    \/ BuildField(t)
    \/ BuildTag(t)
    \/ ReadTransformers(t)
    \/ CacheCall(t)
    \/ WriteValues(t)
    \/ TagDone(t)
    \/ WriteStructsCache(t)
    \/ WriteTransformers(t)
    \/ MorphStructLoop(t)
    \/ MorphFieldLoop(t)
    \/ ReadValues(t)

SpecOverride == Init /\ [][NextOverride]_vars

\* Every descriptor stored stays stored, with the instructions and the
\* transformers it has.
DescriptorsKept ==
  \A key \in DOMAIN structsCache :
    key \in DOMAIN structsCache' /\ structsCache'[key] = structsCache[key]

\* C23, as stated: once the descriptor of a shape is stored no operation
\* changes its instructions or the transformers they resolved to, and later
\* records of the shape are processed with the chain as first compiled.
C23_ChainImmutable == [][DescriptorsKept]_vars

\* The transformers the instructions of a chain hold.
RECURSIVE ChainTransformers(_)
ChainTransformers(tags) ==
  IF tags = <<>> THEN <<>>
  ELSE <<tags[1].transformer>> \o ChainTransformers(tags[1].keysChain)
         \o ChainTransformers(Tail(tags))

\* The part of C23 that holds: with one caller at a time every stored
\* descriptor is kept as it is by Struct, by Register and by WithTag, and a
\* chain compiled before trim was overridden goes on trimming.
C23_SequentialStep ==
  /\ DescriptorsKept
  /\ (StructStep /\ lastArg' = InHead /\ StructKey("Head") \in DOMAIN structsCache
        /\ ChainTransformers(structsCache[StructKey("Head")].fields[1].tags)
             = <<"truncateTransformer", "trimTransformer">>) =>
       lastOut'.elem.fields[1] = Str(<<"a", "b", "c", "d", "e">>)

C23_ChainImmutableInSequence == [][C23_SequentialStep]_vars

\* trim is overridden and the stored chain of Head still holds the built-in.
C23_Reached ==
  /\ transformers[TagTrim] = "funcTransformer:append"
  /\ StructKey("Head") \in DOMAIN structsCache
  /\ ChainTransformers(structsCache[StructKey("Head")].fields[1].tags)
       = <<"truncateTransformer", "trimTransformer">>

\* ------------------------------------------------- values of another kind
\* Each built-in transformer called on its own with a string, an integer, a
\* float of either width, a slice, a map and a nil interface; and Struct on
\* records where a chain comes to a value its transformer does not accept.
BuiltinTags ==
  {TagTrim, TagLower, TagUpper, TagTruncate, TagCeil, TagFloor, TagRound, TagPrecision}

TextTags == {TagTrim, TagLower, TagUpper, TagTruncate}

KindValues ==
  {S3(" ", "A", " "), IntV(5), Flt(1567), [k |-> "float32", f |-> 1567],
   Slice(<<S3(" ", "a", " ")>>), MapV(S1("k") :> S1("v")), NilIface}

InKS == Ptr(StructV("KS", <<Slice(<<S3(" ", "a", " "), S2("b", " ")>>)>>))
InKI == Ptr(StructV("KI", <<Slice(<<IntV(5), IntV(6)>>)>>))
InKF == Ptr(StructV("KF", <<S3(" ", "a", " ")>>))
InKN == Ptr(StructV("KN", <<IntV(5)>>))
InKT == Ptr(StructV("KT", <<Flt(1567)>>))

KindInputs == {InKS, InKI, InKF, InKN, InKT}

\* One call of Transform on a working copy holding v; lastName is the
\* directive, lastArg the value before and lastOut the value after.
TransformCall(tags, values) ==
  /\ \E tag \in tags, v \in values :
       \E r \in {Transform(transformers[tag], v, CompileKey, Values)} :
          /\ lastName' = tag
          /\ lastArg' = v
          /\ lastOut' = r.v
          /\ lastErr' = r.err
  /\ lastOp' = "Transform"
  /\ lastTrace' = <<>>
  /\ lastFailed' = ""
  /\ UNCHANGED <<tagName, transformers, structsCache, Values, lastFail, calls, concVars>>

NextKinds ==
  \/ TransformCall(BuiltinTags, KindValues)
  \/ StructCall(KindInputs)

SpecKinds == Init /\ [][NextKinds]_vars

\* The kinds a built-in transformer accepts.
Accepts(tag, v) == IF tag \in TextTags THEN v.k = "string" ELSE v.k \in {"float64", "float32"}

\* The Struct call on x failed with e after n Transform calls and left the
\* record holding fields.
FailedWith(x, e, n, fields) ==
  (lastOp = "Struct" /\ lastArg = x) =>
    /\ lastErr = e
    /\ Len(TransformRuns) = n
    /\ lastOut.elem.fields = fields

\* C24: a built-in transformer given a value of a kind it does not accept
\* (a text transformer a non-string, a numeric one a non-float) returns
\* UnexpectedValue naming the directive and the kind and leaves the value as
\* it was; in a Struct call the value and its elements are unchanged by it,
\* and the instructions after it in the chain are not run.
C24_UnexpectedValue ==
  /\ (lastOp = "Transform" /\ ~Accepts(lastName, lastArg)) =>
       /\ lastErr = newErrorf("ErrUnexpectedValue", lastName, lastArg.k, <<>>)
       /\ lastOut = lastArg
  /\ FailedWith(InKS, newErrorf("ErrUnexpectedValue", TagTrim, "slice", <<>>), 1,
                InKS.elem.fields)
  /\ FailedWith(InKI, newErrorf("ErrUnexpectedValue", TagTrim, "int", <<>>), 1,
                InKI.elem.fields)
  /\ FailedWith(InKF, newErrorf("ErrUnexpectedValue", TagCeil, "string", <<>>), 2,
                <<S1("a")>>)
  /\ FailedWith(InKN, newErrorf("ErrUnexpectedValue", TagPrecision, "int", <<>>), 1,
                InKN.elem.fields)
  /\ FailedWith(InKT, newErrorf("ErrUnexpectedValue", TagTruncate, "float64", <<>>), 1,
                InKT.elem.fields)

\* truncate was given a float and refused it.
C24_Witness ==
  /\ lastOp = "Transform"
  /\ lastName = TagTruncate
  /\ lastArg = Flt(1567)
  /\ lastErr = newErrorf("ErrUnexpectedValue", TagTruncate, "float64", <<>>)
  /\ lastOut = Flt(1567)

\* ------------------------------------------------------- shapes alike by name
\* Struct on records of two types named alike declared in two functions of
\* one package, of two unnamed types, and of two types named alike in two
\* packages named alike.
InLoc1 == Ptr(StructV("Loc1", <<S3(" ", "a", " "), S1("b")>>))
InLoc2 == Ptr(StructV("Loc2", <<S2(" ", "C")>>))
InAnon1 == Ptr(StructV("Anon1", <<S3(" ", "a", " ")>>))
InAnon2 == Ptr(StructV("Anon2", <<IntV(5), S1("s")>>))
InPkgA == Ptr(StructV("PkgA", <<S4("a", "b", "c", "d")>>))
InPkgB == Ptr(StructV("PkgB", <<S4("e", "f", "g", "h")>>))

ScopeInputs == {InLoc1, InLoc2, InAnon1, InAnon2, InPkgA, InPkgB}

NextScopes == StructCall(ScopeInputs)

SpecScopes == Init /\ [][NextScopes]_vars

\* The descriptor buildStructCache makes of a shape.
OwnDescriptor(shape) ==
  buildStructCache(shape, [structsCache |-> <<>>,
                           values |-> [truncateTransformer |-> <<>>,
                                       precisionTransformer |-> <<>>],
                           trace |-> <<>>, failed |-> "", order |-> <<>>]).cache

\* The shapes that have the descriptor key of shape.
SameKey(shape) == {other \in DOMAIN Shapes : StructKey(other) = StructKey(shape)}

\* C25, as stated: the descriptor found for a record after a Struct call on
\* it is the one compiled from the record's own shape, so that its field
\* indexes and chains are those of that shape, and the call ends as a call
\* on a fresh morpher does.
C25_DescriptorOfOwnShape ==
  (lastOp = "Struct" /\ lastArg \in ScopeInputs) =>
    /\ StructKey(lastArg.elem.shape) \in DOMAIN structsCache =>
         structsCache[StructKey(lastArg.elem.shape)] = OwnDescriptor(lastArg.elem.shape)
    /\ lastErr = Sequential(lastArg).err
    /\ lastOut = Sequential(lastArg).v

\* The part of C25 that holds: a shape that alone has its descriptor key is
\* processed with its own descriptor.
C25_DescriptorOfOwnShapeUniqueKey ==
  (lastOp = "Struct" /\ lastArg \in ScopeInputs /\ SameKey(lastArg.elem.shape) = {lastArg.elem.shape}) =>
    /\ structsCache[StructKey(lastArg.elem.shape)] = OwnDescriptor(lastArg.elem.shape)
    /\ lastErr = NoErr

\* A record was processed with the descriptor of another shape.
C25_Reached ==
  /\ lastOp = "Struct"
  /\ lastArg = InLoc2
  /\ StructKey("Loc2") \in DOMAIN structsCache
  /\ structsCache[StructKey("Loc2")] = OwnDescriptor("Loc1")

\* The instructions of the chains of a descriptor that carry a parameter
\* key.
RECURSIVE Keyed(_)
Keyed(tags) ==
  IF tags = <<>> THEN {}
  ELSE (IF tags[1].paramsKey # NilKey /\ tags[1].transformer \in IntParameterTransformers
        THEN {tags[1]} ELSE {})
         \cup Keyed(tags[1].keysChain) \cup Keyed(Tail(tags))

KeyedInstructions ==
  UNION {UNION {Keyed(structsCache[key].fields[i].tags) :
                  i \in 1..structsCache[key].fieldsLength} : key \in DOMAIN structsCache}

\* C26, as stated: after any Struct calls the parameter stored under the
\* key of an instruction is the one written in the annotation the
\* instruction was compiled from, and a record with truncate=1 or with
\* truncate=3 on its field is cut to that length.
C26_ParameterOfOwnField ==
  /\ \A ins \in KeyedInstructions :
       /\ ins.paramsKey \in DOMAIN Values[ins.transformer]
       /\ Values[ins.transformer][ins.paramsKey] = Atoi(ins.params).n
  /\ (lastOp = "Struct" /\ lastArg = InPkgA) =>
       (lastErr = NoErr /\ lastOut.elem.fields = <<S1("a")>>)
  /\ (lastOp = "Struct" /\ lastArg = InPkgB) =>
       (lastErr = NoErr /\ lastOut.elem.fields = <<S3("e", "f", "g")>>)

\* The part of C26 that holds: every parameter stored is the one written in
\* the annotation of a field whose chain has the key it is stored under.
C26_ParameterOfLastCompiled ==
  \A tr \in DOMAIN Values : \A key \in DOMAIN Values[tr] :
    \E ins \in KeyedInstructions :
      /\ ins.transformer = tr
      /\ ins.paramsKey = key
      /\ Values[tr][key] = Atoi(ins.params).n

\* The descriptors of both packages' T are stored, and the record of the
\* first is cut with the parameter of the second.
C26_Reached ==
  /\ lastOp = "Struct"
  /\ lastArg = InPkgA
  /\ {StructKey("PkgA"), StructKey("PkgB")} \subseteq DOMAIN structsCache
  /\ lastOut.elem.fields = <<S3("a", "b", "c")>>

====
